---- MODULE Spec2Model ----
(***************************************************************************)
(* Verification model of the inlay toolpath geometry engine of CamPlus:    *)
(* the topology filters (inlay/Filters.py, inlay/FiltersUp.py), the raw    *)
(* inlay/outlay assembly (inlay/InlayClosed.py, inlay/InlayClosedUp.py),   *)
(* the perimeter wire extraction and the edge/wire orientation helpers     *)
(* (utilities/Edge.py).                                                    *)
(*                                                                         *)
(* Geometry is discrete: a point is a triple <<x, y, z>> of small naturals *)
(* (coordinates already rounded to the 4 digits _pointToText keeps), an    *)
(* edge is a record with its curve type letter, end points, doubled        *)
(* midpoint and a length key, a face is the sequence of its edges.  The    *)
(* B-rep kernel (generalFuse, sortEdges, Wire) is outside the repository;  *)
(* it is modelled by what the code relies on it to do.                     *)
(***************************************************************************)
EXTENDS Integers, Sequences, FiniteSets, TLC

VARIABLES
    caller,     \* filter pipeline: the function of Inlay.py that called filterInlay
    args,       \* filter pipeline: [up, isOutside, isClosed, extra]
    inlay,      \* filter pipeline: the shape the next pass consumes
    pc,         \* filter pipeline: position inside filterInlay / its caller
    passIn,     \* filter pipeline: faces of the shape the last pass consumed
    handed,     \* filter pipeline: list the last pass handed to fuseShapes
    lastPass,   \* filter pipeline: name of the last pass that ran
    wjob,       \* wire extraction: [faces, wireType, obtusePoints, inside, up]
    wout,       \* wire extraction: what identify*InlayPathWires returned
    ajob,       \* raw assembly: [w, depthOfCut, roundCorners, outlay, up]
    asm,        \* raw assembly: position, faces, lastEndAng, obtusePoints, result
    fedge,      \* flipEdge: the edge, flipped once, flipped twice
    owire,      \* orientWire: the wire, oriented once, oriented twice
    call        \* a support function called on its own: [fn, pc, a, result]

vars ==
    <<caller, args, inlay, pc, passIn, handed, lastPass, wjob, wout, ajob, asm,
      fedge, owire, call>>

\* value of the variables of a part of the program that is not running
Idle == [idle |-> TRUE]

(***************************************************************************)
(* Bounds of the model.                                                    *)
(***************************************************************************)
MaxFaces == 3

\* largest number of faces of an inlay handed to the wire extraction
MaxWireFaces == 2

\* largest angle, in degrees and of either sign, handed to a support function
MaxAngle == 800

(***************************************************************************)
(* Sequence helpers.                                                       *)
(***************************************************************************)
Front(s) == SubSeq(s, 1, Len(s) - 1)

Last(s) == s[Len(s)]

InSeq(x, s) == \E i \in 1..Len(s) : s[i] = x

RECURSIVE Dedup(_)
Dedup(s) ==
    IF s = <<>> THEN <<>>
    ELSE LET d == Dedup(Front(s))
         IN IF InSeq(Last(s), d) THEN d ELSE Append(d, Last(s))

RECURSIVE Concat(_)
Concat(ss) == IF ss = <<>> THEN <<>> ELSE Concat(Front(ss)) \o Last(ss)

Min2(a, b) == IF a < b THEN a ELSE b

Max2(a, b) == IF a > b THEN a ELSE b

RECURSIVE SeqMax(_)
SeqMax(s) == IF Len(s) = 1 THEN s[1] ELSE Max2(SeqMax(Front(s)), Last(s))

RECURSIVE SeqMin(_)
SeqMin(s) == IF Len(s) = 1 THEN s[1] ELSE Min2(SeqMin(Front(s)), Last(s))

(***************************************************************************)
(* Text keys.  _pointToText formats a point as "z,y,x," so tuples sort by  *)
(* z first; the key is the reordered triple and TextLess is the order of   *)
(* list.sort on those texts (coordinates are single non-negative digits,   *)
(* where text order and numeric order agree).                              *)
(***************************************************************************)
pointToText(p) == <<p[3], p[2], p[1]>>

RECURSIVE TextLess(_, _)
TextLess(s, t) ==
    IF s = <<>> \/ t = <<>> THEN s = <<>> /\ t # <<>>
    ELSE IF s[1] # t[1] THEN s[1] < t[1]
    ELSE TextLess(Tail(s), Tail(t))

\* list.sort(key=lambda t: t[0]) : stable, ascending by text
RECURSIVE InsertSorted(_, _)
InsertSorted(s, t) ==
    IF s = <<>> THEN <<t>>
    ELSE IF TextLess(t.txt, Last(s).txt)
         THEN Append(InsertSorted(Front(s), t), Last(s))
         ELSE Append(s, t)

RECURSIVE SortTups(_)
SortTups(tups) ==
    IF tups = <<>> THEN <<>>
    ELSE InsertSorted(SortTups(Front(tups)), Last(tups))

(***************************************************************************)
(* Edges and faces.                                                        *)
(***************************************************************************)
Dist2(a, b) ==
    (a[1] - b[1]) * (a[1] - b[1]) + (a[2] - b[2]) * (a[2] - b[2])
    + (a[3] - b[3]) * (a[3] - b[3])

\* Part.makeLine(a, b): m is twice the midpoint, len the squared length
LineE(a, b) ==
    [t |-> "L", a |-> a, b |-> b,
     m |-> <<a[1] + b[1], a[2] + b[2], a[3] + b[3]>>,
     len |-> Dist2(a, b), r |-> 0]

\* an arc of a horizontal circle of radius r whose midpoint is m / 2
ArcE(a, b, m, len, r) == [t |-> "C", a |-> a, b |-> b, m |-> m, len |-> len, r |-> r]

EdgeZMin(e) == Min2(e.a[3], e.b[3])

EdgeZMax(e) == Max2(e.a[3], e.b[3])

\* valueAtMidpoint / valueAtEdgeLength(e, e.Length / 2)
valueAtMidpoint(e) == e.m

\* f.Vertexes: the distinct end points of the face's edges, in edge order
RECURSIVE Vertexes(_)
Vertexes(f) ==
    IF f = <<>> THEN <<>>
    ELSE Dedup(Vertexes(Front(f)) \o <<Last(f).a, Last(f).b>>)

FaceZMax(f) == SeqMax([i \in 1..Len(f) |-> EdgeZMax(f[i])])

FaceZMin(f) == SeqMin([i \in 1..Len(f) |-> EdgeZMin(f[i])])

\* BoundBox.ZMax / ZMin of a shape or compound made of faces
ShapeZMax(faces) == SeqMax([i \in 1..Len(faces) |-> FaceZMax(faces[i])])

ShapeZMin(faces) == SeqMin([i \in 1..Len(faces) |-> FaceZMin(faces[i])])

\* closed polygon through the points ps, all edges lines
Poly(ps) ==
    [i \in 1..Len(ps) |-> LineE(ps[i], ps[(i % Len(ps)) + 1])]

(***************************************************************************)
(* Shapes: None, or the faces of a face / compound.                        *)
(***************************************************************************)
NoneShape == [none |-> TRUE, faces |-> <<>>]

Shape(faces) == [none |-> FALSE, faces |-> faces]

\* Edge.fuseShapes: None for an empty list, the single shape unchanged,
\* otherwise the general fuse, whose result holds coincident faces once
fuseShapes(shapes) ==
    IF Len(shapes) = 0 THEN NoneShape
    ELSE IF Len(shapes) = 1 THEN Shape(shapes)
    ELSE Shape(Dedup(shapes))

(***************************************************************************)
(* Reference tuples of the filters.                                        *)
(***************************************************************************)
\* _edgeMidpointText: "L<half length>_" followed by the midpoint text
edgeMidpointText(e) == <<e.len>> \o pointToText(e.m)

\* _makeFaceFilterRefTups(faces): (text, face index, vertex index, vertex
\* count) of every vertex of every face, sorted by text
makeFaceFilterRefTups(faces) ==
    SortTups(Concat([fi \in 1..Len(faces) |->
        LET vs == Vertexes(faces[fi])
        IN [vi \in 1..Len(vs) |->
              [txt |-> pointToText(vs[vi]), fi |-> fi, vi |-> vi, cnt |-> Len(vs)]]]))

\* _makeEdgeFilterRefTups(faces): (midpoint text, face index, edge index,
\* edge count) of every edge of every face, sorted by text
makeEdgeFilterRefTups(faces) ==
    SortTups(Concat([fi \in 1..Len(faces) |->
        [ei \in 1..Len(faces[fi]) |->
            [txt |-> pointToText(valueAtMidpoint(faces[fi][ei])),
             fi |-> fi, ei |-> ei, cnt |-> Len(faces[fi])]]]))

\* _identifyMultiples(ary): the values that occur more than once
RECURSIVE identifyMultiples(_)
identifyMultiples(ary) ==
    IF ary = <<>> THEN <<>>
    ELSE LET m == identifyMultiples(Front(ary))
             a == Last(ary)
         IN IF InSeq(a, Front(ary)) /\ ~InSeq(a, m) THEN Append(m, a) ELSE m

(***************************************************************************)
(* A filter pass returns [raised, shape, handed, fused]: whether it raised *)
(* an exception, the shape it returned, the list it handed to fuseShapes   *)
(* and whether it called fuseShapes at all.                                *)
(***************************************************************************)
Raised == [raised |-> TRUE, shape |-> NoneShape, handed |-> <<>>, fused |-> FALSE]

Fused(list) ==
    [raised |-> FALSE, shape |-> fuseShapes(list), handed |-> list, fused |-> TRUE]

Returned(shape) ==
    [raised |-> FALSE, shape |-> shape, handed |-> <<>>, fused |-> FALSE]

\* _TriangleFaceHasHorizLowEdge(f, zTop): midpoint text of the first
\* horizontal edge that is not at zTop, <<>> for None
TriangleFaceHasHorizLowEdge(f, zTop) ==
    LET hits == {i \in 1..Len(f) :
                    EdgeZMin(f[i]) = EdgeZMax(f[i]) /\ EdgeZMax(f[i]) # zTop}
    IN IF hits = {} THEN <<>>
       ELSE edgeMidpointText(f[CHOOSE i \in hits : \A j \in hits : i <= j])

\* FiltersUp._TriangleFaceHasHorizHighEdge(f, zBot)
TriangleFaceHasHorizHighEdge(f, zBot) ==
    LET hits == {i \in 1..Len(f) :
                    EdgeZMin(f[i]) = EdgeZMax(f[i]) /\ EdgeZMin(f[i]) # zBot}
    IN IF hits = {} THEN <<>>
       ELSE edgeMidpointText(f[CHOOSE i \in hits : \A j \in hits : i <= j])

\* the cancelling loop of _filterOutSpecialTriangularFaces over sorted tups
RECURSIVE XorScan(_)
XorScan(tups) ==
    IF Len(tups) = 1 THEN [unique |-> <<tups[1]>>, cnt |-> 1]
    ELSE LET st == XorScan(Front(tups))
             t == Last(tups)
         IN IF st.cnt > 0 /\ t.txt = Last(st.unique).txt
            THEN [unique |-> Front(st.unique), cnt |-> st.cnt - 1]
            ELSE [unique |-> Append(st.unique, t), cnt |-> st.cnt + 1]

\* body shared by _filterOutSpecialTriangularFaces and its Up mirror; flag(fi)
\* is the midpoint text of the flagged triangle fi, <<>> when not flagged.
\* Returns [raised, faces].
SpecialTriangles(faces, flag) ==
    LET idx == [fi \in 1..Len(faces) |-> fi]
        flagged(fi) == Len(faces[fi]) = 3 /\ flag[fi] # <<>>
        keep0 == SelectSeq(idx, LAMBDA fi : ~flagged(fi))
        fl == SelectSeq(idx, LAMBDA fi : flagged(fi))
        tups == [k \in 1..Len(fl) |-> [txt |-> flag[fl[k]], fi |-> fl[k]]]
    IN IF Len(tups) = 0
       THEN [raised |-> FALSE, faces |-> [k \in 1..Len(keep0) |-> faces[keep0[k]]]]
       ELSE IF Len(tups) = 1
       THEN [raised |-> TRUE, faces |-> <<>>]    \* tups[1]: IndexError
       ELSE LET u == XorScan(SortTups(tups)).unique
                keepIdxs == keep0 \o [k \in 1..Len(u) |-> u[k].fi]
            IN [raised |-> FALSE,
                faces |-> [k \in 1..Len(keepIdxs) |-> faces[keepIdxs[k]]]]

filterOutSpecialTriangularFaces(faces) ==
    IF faces = <<>> THEN [raised |-> FALSE, faces |-> <<>>]
    ELSE LET zMax == ShapeZMax(faces)
         IN SpecialTriangles(faces,
                [fi \in 1..Len(faces) |-> TriangleFaceHasHorizLowEdge(faces[fi], zMax)])

filterOutSpecialTriangularFacesUp(faces) ==
    IF faces = <<>> THEN [raised |-> FALSE, faces |-> <<>>]
    ELSE LET zMin == ShapeZMin(faces)
         IN SpecialTriangles(faces,
                [fi \in 1..Len(faces) |-> TriangleFaceHasHorizHighEdge(faces[fi], zMin)])

\* _filterInlay_1: keep the faces touching the top of the inlay
filterInlay_1(shape) ==
    IF shape.none THEN Raised
    ELSE LET iMax == ShapeZMax(shape.faces)
             keep == SelectSeq(shape.faces, LAMBDA f : FaceZMax(f) = iMax)
             skip == Len(shape.faces) - Len(keep)
         IN IF skip = 0 THEN Returned(shape) ELSE Fused(keep)

\* _filterInlay_1Up that keeps the faces touching the top instead
filterInlay_1Up_top(shape) ==
    IF shape.none THEN Raised
    ELSE LET iMax == ShapeZMax(shape.faces)
             keep == SelectSeq(shape.faces, LAMBDA f : FaceZMax(f) = iMax)
             skip == Len(shape.faces) - Len(keep)
         IN IF skip = 0 THEN Returned(shape) ELSE Fused(keep)

\* _filterInlay_1Up: keep the faces touching the bottom of the inlay
filterInlay_1Up(shape) ==
    IF shape.none THEN Raised
    ELSE LET iMin == ShapeZMin(shape.faces)
             keep == SelectSeq(shape.faces, LAMBDA f : FaceZMin(f) = iMin)
             skip == Len(shape.faces) - Len(keep)
         IN IF skip = 0 THEN Returned(shape) ELSE Fused(keep)

\* the save / remove loop of _filterInlay_2 over the sorted vertex tups
RECURSIVE LoneScan(_)
LoneScan(tups) ==
    IF Len(tups) = 1 THEN [save |-> <<tups[1]>>, remove |-> <<>>, count |-> 1]
    ELSE LET st == LoneScan(Front(tups))
             tup == Last(tups)
         IN IF Last(st.save).txt = tup.txt
            THEN [save |-> Append(st.save, tup), remove |-> st.remove,
                  count |-> st.count + 1]
            ELSE IF st.count = 1
            THEN [save |-> Append(Front(st.save), tup),
                  remove |-> Append(st.remove, Last(st.save).fi), count |-> 1]
            ELSE [save |-> Append(st.save, tup), remove |-> st.remove, count |-> 1]

\* LoneFinish without the check of the last group after the loop
LoneFinish_noLast(st) == [save |-> st.save, remove |-> st.remove]

\* the end of the loop: a last group of one vertex is lone as well
LoneFinish(st) ==
    IF st.count = 1
    THEN [save |-> Front(st.save), remove |-> Append(st.remove, Last(st.save).fi)]
    ELSE [save |-> st.save, remove |-> st.remove]

\* LoneVertexFaces that applies the rule of the open profile to every profile
LoneVertexFaces_openRule(faces, isClosed) ==
    LET fin == LoneFinish(LoneScan(makeFaceFilterRefTups(faces)))
        sel == SelectSeq(fin.save, LAMBDA t : ~InSeq(t.fi, fin.remove) \/ t.cnt # 3)
    IN [k \in 1..Len(sel) |-> faces[sel[k].fi]]

\* the list comprehension of _filterInlay_2: one face copy per saved tuple
LoneVertexFaces(faces, isClosed) ==
    LET fin == LoneFinish(LoneScan(makeFaceFilterRefTups(faces)))
        sel == IF isClosed
               THEN SelectSeq(fin.save, LAMBDA t : ~InSeq(t.fi, fin.remove))
               ELSE SelectSeq(fin.save, LAMBDA t :
                        ~InSeq(t.fi, fin.remove)
                        \/ (InSeq(t.fi, fin.remove) /\ t.cnt # 3))
    IN [k \in 1..Len(sel) |-> faces[sel[k].fi]]

\* _filterInlay_2: drop the faces that have a lone vertex
filterInlay_2(shape, isClosed, filterTriangular) ==
    IF shape.none THEN Raised    \* None.Faces: AttributeError
    ELSE LET faces == LoneVertexFaces(shape.faces, isClosed)
         IN IF filterTriangular
            THEN LET clean == filterOutSpecialTriangularFaces(faces)
                 IN IF clean.raised THEN Raised ELSE Fused(clean.faces)
            ELSE Fused(faces)

\* FiltersUp._filterInlay_2Up
filterInlay_2Up(shape, isClosed, filterTriangular) ==
    IF shape.none THEN Raised
    ELSE LET faces == LoneVertexFaces(shape.faces, isClosed)
         IN IF filterTriangular
            THEN LET clean == filterOutSpecialTriangularFacesUp(faces)
                 IN IF clean.raised THEN Raised ELSE Fused(clean.faces)
            ELSE Fused(faces)

\* the idxs loop of _filterInlay_3 over the sorted (text, face index) tups
RECURSIVE RimScan(_)
RimScan(tups) ==
    IF Len(tups) = 1
    THEN [idxs |-> <<tups[1].fi>>, txt |-> tups[1].txt, multi |-> FALSE]
    ELSE LET st == RimScan(Front(tups))
             t == Last(tups)
         IN IF t.txt = st.txt
            THEN [idxs |-> st.idxs, txt |-> st.txt, multi |-> TRUE]
            ELSE [idxs |-> Append(IF st.multi THEN Front(st.idxs) ELSE st.idxs, t.fi),
                  txt |-> t.txt, multi |-> FALSE]

\* body shared by _filterInlay_3 and _filterInlay_3Up over the edges that
\* touch the rim height rimZ without lying in it
IsolatedRimEdges(shape, rimZ, up) ==
    IF shape.none THEN Returned(NoneShape)
    ELSE LET iFaces == shape.faces
             touches(e) == IF up THEN EdgeZMin(e) = rimZ /\ EdgeZMax(e) # rimZ
                           ELSE EdgeZMax(e) = rimZ /\ EdgeZMin(e) # rimZ
             all == Concat([fi \in 1..Len(iFaces) |->
                        [ei \in 1..Len(iFaces[fi]) |->
                            [txt |-> pointToText(valueAtMidpoint(iFaces[fi][ei])),
                             fi |-> fi, ei |-> ei]]])
             tups == SortTups(SelectSeq(all, LAMBDA t : touches(iFaces[t.fi][t.ei])))
         IN IF tups = <<>> THEN Raised    \* tups[0]: IndexError
            ELSE LET st == RimScan(tups)
                     idxs == IF st.multi THEN Front(st.idxs) ELSE st.idxs
                     keepIdx == SelectSeq([i \in 1..Len(iFaces) |-> i],
                                          LAMBDA i : ~InSeq(i, idxs))
                 IN Fused([k \in 1..Len(keepIdx) |-> iFaces[keepIdx[k]]])

\* _filterInlay_3 that removes no face
filterInlay_3_keepAll(shape) ==
    IF shape.none THEN Returned(NoneShape) ELSE Fused(shape.faces)

filterInlay_3(shape) ==
    IF shape.none THEN Returned(NoneShape)
    ELSE IsolatedRimEdges(shape, ShapeZMax(shape.faces), FALSE)

filterInlay_3Up(shape) ==
    IF shape.none THEN Returned(NoneShape)
    ELSE IsolatedRimEdges(shape, ShapeZMin(shape.faces), TRUE)

\* the grouping loop of _filterInlay_4 over the sorted edge tups
RECURSIVE SharedScan(_)
SharedScan(tups) ==
    IF Len(tups) = 1
    THEN [last |-> tups[1].txt, current |-> <<tups[1].fi>>, cnt |-> 1,
          singles |-> <<>>, remove |-> <<>>]
    ELSE LET st == SharedScan(Front(tups))
             t == Last(tups)
         IN IF t.txt = st.last
            THEN LET cur == Append(st.current, t.fi)
                 IN [last |-> st.last, current |-> cur, cnt |-> st.cnt + 1,
                     singles |-> st.singles,
                     remove |-> IF st.cnt + 1 > 2 THEN st.remove \o cur ELSE st.remove]
            ELSE [last |-> t.txt, current |-> <<t.fi>>, cnt |-> 1,
                  singles |-> IF st.cnt = 1
                              THEN Append(st.singles, Last(Front(tups)).fi)
                              ELSE st.singles,
                  remove |-> st.remove]

\* _filterInlay_4: faces with an edge shared by three or more faces
filterInlay_4(shape) ==
    IF shape.none THEN Raised    \* None.Faces: AttributeError
    ELSE LET st == SharedScan(makeEdgeFilterRefTups(shape.faces))
             plural == identifyMultiples(st.singles)
             keepIdx == SelectSeq([i \in 1..Len(shape.faces) |-> i],
                            LAMBDA i : ~InSeq(i, st.remove) \/ ~InSeq(i, plural))
         IN Fused([k \in 1..Len(keepIdx) |-> shape.faces[keepIdx[k]]])

(***************************************************************************)
(* Face sets the filters are run on: sequences of distinct faces over a    *)
(* small lattice.  T = rim height of the down variant, M = mid height,     *)
(* B = bottom; the bottom row is offset in y so that walls are slanted.    *)
(***************************************************************************)
T(c) == <<c, 0, 2>>

M(c) == <<c, 0, 1>>

B(c) == <<c, 1, 0>>

FacePool ==
    << Poly(<<T(0), T(1), B(1), B(0)>>),    \* wall between columns 0 and 1
       Poly(<<T(1), T(2), B(2), B(1)>>),    \* wall between columns 1 and 2
       Poly(<<T(0), T(1), B(0)>>),          \* triangle hanging from the rim
       Poly(<<B(0), B(1), T(1)>>),          \* triangle standing on the bottom
       Poly(<<B(0), B(1), T(0)>>),          \* its twin on the same bottom edge
       Poly(<<M(0), M(1), B(1), B(0)>>),    \* wall that stops below the rim
       Poly(<<T(1), T(2), B(1)>>),
       Poly(<<M(1), M(2), T(2)>>),          \* triangle on a mid-height edge
       Poly(<<T(0), T(1), M(1), M(0)>>) >>  \* wall that stops above the bottom

FaceSeqs ==
    LET idx == UNION {[1..n -> 1..Len(FacePool)] : n \in 1..MaxFaces}
        inj(s) == \A i, j \in 1..Len(s) : i # j => s[i] # s[j]
    IN {[k \in 1..Len(s) |-> FacePool[s[k]]] : s \in {x \in idx : inj(x)}}

(***************************************************************************)
(* filterInlay and its callers in Inlay.py.                                *)
(***************************************************************************)
Callers == {"makeInlayDown", "makeOutlayDown", "makeInlayUp", "makeOutlayUp", "direct"}

Args(up, isOutside, isClosed, extra) ==
    [up |-> up, isOutside |-> isOutside, isClosed |-> isClosed, extra |-> extra]

\* the arguments each caller passes to filterInlay ("direct": any arguments)
CallerArgs(c) ==
    CASE c = "makeInlayDown"  -> {Args(FALSE, FALSE, TRUE, FALSE)}
      [] c = "makeOutlayDown" -> {Args(FALSE, FALSE, TRUE, FALSE)}
      [] c = "makeInlayUp"    -> {Args(TRUE, FALSE, TRUE, rnd) : rnd \in BOOLEAN}
      [] c = "makeOutlayUp"   -> {Args(TRUE, TRUE, TRUE, FALSE)}
      [] OTHER -> {Args(u, o, cl, x) : u \in BOOLEAN, o \in BOOLEAN,
                                       cl \in BOOLEAN, x \in BOOLEAN}

InitFilter ==
    /\ caller \in Callers /\ call = Idle
    /\ args \in CallerArgs(caller)
    /\ inlay \in {Shape(F) : F \in FaceSeqs}
    /\ pc = "filter_1"
    /\ passIn = <<>>
    /\ handed = <<>>
    /\ lastPass = "none"
    /\ wjob = Idle /\ wout = Idle /\ ajob = Idle /\ asm = Idle
    /\ fedge = Idle /\ owire = Idle

\* Ran with pass 4 run after pass 3 as well
Ran_fourAfterThree(name, r, next) ==
    /\ lastPass' = name
    /\ passIn' = inlay.faces
    /\ handed' = r.handed
    /\ inlay' = r.shape
    /\ pc' = IF r.raised THEN "raised" ELSE IF name = "filter_3" THEN "filter_4" ELSE next
    /\ UNCHANGED <<caller, call, args, wjob, wout, ajob, asm, fedge, owire>>

\* one pass of filterInlay: r is what the pass returned, next where filterInlay
\* continues when the pass did not raise
Ran(name, r, next) ==
    /\ lastPass' = name
    /\ passIn' = inlay.faces
    /\ handed' = r.handed
    /\ inlay' = r.shape
    /\ pc' = IF r.raised THEN "raised" ELSE next
    /\ UNCHANGED <<caller, call, args, wjob, wout, ajob, asm, fedge, owire>>

\* the pass filterInlay runs at position p with the arguments a on shape, and
\* where it continues: the down module runs pass 4 after the inside pass 2, the
\* up module has no pass 4
PassOf(p, a, shape) ==
    CASE p = "filter_1" ->
           [r |-> IF a.up THEN filterInlay_1Up(shape) ELSE filterInlay_1(shape),
            next |-> "filter_2"]
      [] p = "filter_2" ->
           [r |-> IF a.up THEN filterInlay_2Up(shape, a.isClosed, ~a.isOutside)
                  ELSE filterInlay_2(shape, a.isClosed, ~a.isOutside),
            next |-> IF a.isOutside
                     THEN (IF a.isClosed THEN "filter_3" ELSE "return")
                     ELSE IF ~a.up THEN "filter_4"
                     ELSE IF a.extra THEN "filter_2b" ELSE "return"]
      [] p = "filter_3" ->
           [r |-> IF a.up THEN filterInlay_3Up(shape) ELSE filterInlay_3(shape),
            next |-> "return"]
      [] p = "filter_4" ->
           [r |-> filterInlay_4(shape),
            next |-> IF a.extra THEN "filter_2b" ELSE "return"]
      [] p = "filter_2b" ->
           [r |-> IF a.up THEN filterInlay_2Up(shape, a.isClosed, FALSE)
                  ELSE filterInlay_2(shape, a.isClosed, FALSE),
            next |-> "return"]

Pass_1 ==
    /\ pc = "filter_1"
    /\ Ran(pc, PassOf(pc, args, inlay).r, PassOf(pc, args, inlay).next)

Pass_2 ==
    /\ pc = "filter_2"
    /\ Ran(pc, PassOf(pc, args, inlay).r, PassOf(pc, args, inlay).next)

Pass_3 ==
    /\ pc = "filter_3"
    /\ Ran(pc, PassOf(pc, args, inlay).r, PassOf(pc, args, inlay).next)

Pass_4 ==
    /\ pc = "filter_4"
    /\ Ran(pc, PassOf(pc, args, inlay).r, PassOf(pc, args, inlay).next)

Pass_2b ==
    /\ pc = "filter_2b"
    /\ Ran(pc, PassOf(pc, args, inlay).r, PassOf(pc, args, inlay).next)

\* the caller takes the result: None makes it return (None, None)
Return ==
    /\ pc = "return"
    /\ pc' = "done"
    /\ UNCHANGED <<caller, call, args, inlay, passIn, handed, lastPass, wjob, wout, ajob, asm, fedge, owire>>

NextFilter == Pass_1 \/ Pass_2 \/ Pass_3 \/ Pass_4 \/ Pass_2b \/ Return

SpecFilter == InitFilter /\ [][NextFilter]_vars

(***************************************************************************)
(* The lone-vertex filter applied to its own output.                       *)
(***************************************************************************)
InitLone ==
    /\ caller = "direct" /\ call = Idle
    /\ args \in {Args(u, ~ft, cl, FALSE) : u \in BOOLEAN, ft \in BOOLEAN, cl \in BOOLEAN}
    /\ inlay \in {Shape(F) : F \in FaceSeqs}
    /\ pc = "lone_0"
    /\ passIn = <<>>
    /\ handed = <<>>
    /\ lastPass = "none"
    /\ wjob = Idle /\ wout = Idle /\ ajob = Idle /\ asm = Idle
    /\ fedge = Idle /\ owire = Idle

LonePass(from, to) ==
    /\ pc = from
    /\ Ran("filter_2",
           IF args.up THEN filterInlay_2Up(inlay, args.isClosed, ~args.isOutside)
           ELSE filterInlay_2(inlay, args.isClosed, ~args.isOutside),
           to)

LoneFirst == LonePass("lone_0", "lone_1")

LoneSecond == LonePass("lone_1", "lone_2")

NextLone == LoneFirst \/ LoneSecond

SpecLone == InitLone /\ [][NextLone]_vars

(***************************************************************************)
(* Perimeter / wire extraction (Filters.py and FiltersUp.py, whose         *)
(* faceAnalysis and identify*InlayPathWires are the same text).            *)
(***************************************************************************)
\* e.Curve.TypeId[10] in lower case
Lower(t) == CASE t = "L" -> "l" [] t = "C" -> "c" [] t = "B" -> "b" [] OTHER -> "p"

\* len(e.Vertexes): a full circle has one vertex
NumVertexes(e) == IF e.t = "C" /\ e.a = e.b THEN 1 ELSE 2

\* hasattr(e.Curve, "Radius")
HasRadius(e) == e.t = "C"

\* _touchesObtusePoint(e, obtusePoints): an end point of e lies above or below
\* an obtuse point
touchesObtusePoint(e, obtusePoints) ==
    \E v \in {e.a, e.b} : \E i \in 1..Len(obtusePoints) :
        v[1] = obtusePoints[i][1] /\ v[2] = obtusePoints[i][2]

\* the branch faceAnalysis takes for one edge
EdgeClass(e, zMin, zMax, obtusePoints) ==
    IF e.len = 0 THEN "trash"
    ELSE IF EdgeZMin(e) = zMax THEN "rim"
    ELSE IF EdgeZMax(e) = zMin THEN "bottom"
    ELSE IF EdgeZMax(e) = zMax
         THEN (IF touchesObtusePoint(e, obtusePoints) THEN "trash" ELSE "support")
    ELSE "other"

\* faceAnalysis(f, fi, eCnt, zMin, zMax, obtusePoints): the tuples (e, fi, ei)
\* of each class in edge order, and one cats letter per edge that is not trash
faceAnalysis(f, fi, eCnt, zMin, zMax, obtusePoints) ==
    LET tups == [ei \in 1..eCnt |->
                    [e |-> f[ei], fi |-> fi, ei |-> ei,
                     c |-> EdgeClass(f[ei], zMin, zMax, obtusePoints)]]
        of(c) == LET sel == SelectSeq(tups, LAMBDA t : t.c = c)
                 IN [k \in 1..Len(sel) |-> [e |-> sel[k].e, fi |-> fi, ei |-> sel[k].ei]]
        kept == SelectSeq(tups, LAMBDA t : t.c # "trash")
    IN [rim |-> of("rim"), support |-> of("support"), other |-> of("other"),
        bottom |-> of("bottom"),
        cats |-> [k \in 1..Len(kept) |->
                     IF kept[k].c = "rim" THEN kept[k].e.t ELSE Lower(kept[k].e.t)]]

\* cats.index(x), counted from 1
CatsIndex(cats, x) == CHOOSE i \in 1..Len(cats) : cats[i] = x /\ \A j \in 1..(i - 1) : cats[j] # x

\* commonEndPointAtRim(rim, e1, e2)
commonEndPointAtRim(rim, e1, e2) ==
    \/ e1.a[3] = rim /\ (e1.a = e2.a \/ e1.a = e2.b)
    \/ e1.b[3] = rim /\ (e1.b = e2.a \/ e1.b = e2.b)

\* Region.makeEdgeMidpointTups / FiltersUp.makeEdgeMidpointTups
makeEdgeMidpointTups(edges) ==
    SortTups([ei \in 1..Len(edges) |->
                 [txt |-> edgeMidpointText(edges[ei]), ei |-> ei, e |-> edges[ei]]])

\* the loop of uniqueEdges over the sorted tups: a tuple is deleted when its
\* text is that of the last unique one, which in a sorted list is its predecessor
UniqueScan(tups) ==
    SelectSeq([k \in 1..Len(tups) |->
                  [txt |-> tups[k].txt, e |-> tups[k].e,
                   dup |-> k > 1 /\ tups[k].txt = tups[k - 1].txt]],
              LAMBDA t : ~t.dup)

\* uniqueEdges(edges)
uniqueEdges(edges) ==
    LET tups == makeEdgeMidpointTups(edges)
    IN IF Len(tups) = 0 THEN <<>>
       ELSE LET u == UniqueScan(tups) IN [k \in 1..Len(u) |-> u[k].e]

\* removeEdges that ignores nothing
removeEdges_keepAll(full, ignore) == full

\* removeEdges(full, ignore)
removeEdges(full, ignore) ==
    LET eTups == makeEdgeMidpointTups(full)
        rTups == makeEdgeMidpointTups(ignore)
        left == SelectSeq(eTups, LAMBDA t : \A k \in 1..Len(rTups) : rTups[k].txt # t.txt)
    IN [k \in 1..Len(left) |-> left[k].e]

\* what the per-face branch of identify*InlayPathWires adds to the lists
Adds(k, r, s, a) == [raised |-> FALSE, keep |-> k, remove |-> r, support |-> s, avoid |-> a]

AddsRaised == [raised |-> TRUE, keep |-> <<>>, remove |-> <<>>, support |-> <<>>, avoid |-> <<>>]

\* the if / elif chain on eCnt and cats for one face; s is the face's support
\* list.  The inside function guards be.Curve.Radius with hasattr and the
\* common-end-point test with len(s) > 0, the outside function does not.
FaceBranch(f, cats, s, zMax, inside) ==
    IF Len(f) = 3
    THEN IF InSeq("L", cats) THEN Adds(s, <<>>, <<>>, <<>>)
         ELSE IF InSeq("c", cats) THEN Adds(<<>>, s, <<>>, <<>>)
         ELSE Adds(<<>>, <<>>, s, <<>>)
    ELSE IF InSeq("C", cats) /\ InSeq("c", cats)
    THEN LET re == f[CatsIndex(cats, "C")]
             be == f[CatsIndex(cats, "c")]
         IN IF re.len > 0
            THEN IF inside /\ ~HasRadius(be) THEN Adds(<<>>, <<>>, s, <<>>)
                 ELSE IF ~HasRadius(re) \/ ~HasRadius(be) THEN AddsRaised
                 ELSE IF re.r > be.r
                 THEN Adds(<<>>, SelectSeq(s, LAMBDA t : t.e.t # "P"), <<>>,
                           SelectSeq(s, LAMBDA t : t.e.t = "P"))
                 ELSE Adds(<<>>, <<>>, s, <<>>)
            ELSE IF inside /\ Len(s) = 0 THEN Adds(<<>>, <<>>, s, <<>>)
                 ELSE IF Len(s) < 2 THEN AddsRaised    \* s[1]: IndexError
                 ELSE IF commonEndPointAtRim(zMax, s[1].e, s[2].e)
                 THEN Adds(<<>>, s, <<>>, <<>>)
                 ELSE Adds(<<>>, <<>>, s, <<>>)
    ELSE IF Len(s) = 2
    THEN IF commonEndPointAtRim(zMax, s[1].e, s[2].e)
         THEN Adds(<<>>, s, <<>>, <<>>)
         ELSE Adds(<<>>, <<>>, s, <<>>)
    ELSE Adds(<<>>, <<>>, s, <<>>)

\* the loop over the faces: one record of lists per face
FaceLists(fa, br) ==
    [raised |-> br.raised, rim |-> fa.rim, bottom |-> fa.bottom, other |-> fa.other,
     support |-> br.support, remove |-> br.remove, keep |-> br.keep, avoid |-> br.avoid]

FaceGroups(f, fa, zMax, inside) ==
    FaceLists(fa, FaceBranch(f, fa.cats, fa.support, zMax, inside))

SortEdgeGroups(faces, zMin, zMax, obtusePoints, inside) ==
    [n \in 1..Len(faces) |->
        FaceGroups(faces[n],
                   faceAnalysis(faces[n], n, Len(faces[n]), zMin, zMax, obtusePoints),
                   zMax, inside)]

\* all the edges of one list, over the faces
AllEdges(g, list) ==
    Concat([n \in 1..Len(g) |-> [k \in 1..Len(g[n][list]) |-> g[n][list][k].e]])

\* the unique edge lists r, b, o, d, k and s = removeEdges(sRaw, d) both
\* identify functions build; the outside function also pops the line segments
\* from s
UniqueLists(g, d, inside) ==
    [raised |-> \E n \in 1..Len(g) : g[n].raised,
     r |-> uniqueEdges(AllEdges(g, "rim")),
     b |-> uniqueEdges(AllEdges(g, "bottom")),
     o |-> uniqueEdges(AllEdges(g, "other")),
     d |-> d,
     k |-> uniqueEdges(AllEdges(g, "keep")),
     s |-> IF inside THEN removeEdges(uniqueEdges(AllEdges(g, "support")), d)
           ELSE SelectSeq(removeEdges(uniqueEdges(AllEdges(g, "support")), d),
                          LAMBDA e : e.t # "L")]

GroupLists(g, inside) == UniqueLists(g, uniqueEdges(AllEdges(g, "remove")), inside)

EdgeLists(faces, obtusePoints, inside) ==
    GroupLists(SortEdgeGroups(faces, ShapeZMin(faces), ShapeZMax(faces),
                              obtusePoints, inside), inside)

\* results of the wire functions
WireRaised == [kind |-> "raised", edges |-> <<>>]

WireNone == [kind |-> "None", edges |-> <<>>]

\* Part.makeCompound([Part.Wire(g) for g in Part.sortEdges(edges)])
Compound(edges) == [kind |-> "compound", edges |-> edges]

\* the lowest vertex of the inlay, the first one found when several are lowest
RECURSIVE LowestPoint(_)
LowestPoint(ps) ==
    IF Len(ps) = 1 THEN ps[1]
    ELSE LET p == LowestPoint(Front(ps))
         IN IF Last(ps)[3] < p[3] THEN Last(ps) ELSE p

\* the 10 mm vertical line wire placed at the lowest point of the inlay
VerticalLineWire(faces) ==
    LET p == LowestPoint(Concat([fi \in 1..Len(faces) |->
                 Concat([ei \in 1..Len(faces[fi]) |->
                     IF NumVertexes(faces[fi][ei]) = 1 THEN <<faces[fi][ei].a>>
                     ELSE <<faces[fi][ei].a, faces[fi][ei].b>>])]))
    IN [kind |-> "wire", edges |-> <<LineE(p, <<p[1], p[2], p[3] + 10>>)>>]

\* inlayEdgesToWires(inlay, edges)
inlayEdgesToWires(faces, edges) ==
    IF Len(edges) = 0 THEN VerticalLineWire(faces) ELSE Compound(edges)

\* _duplicateArc(edge): [raised, none, e]
duplicateArc(e) ==
    IF e.t = "C"
    THEN [raised |-> NumVertexes(e) < 2, none |-> FALSE, e |-> e]   \* SubShapes[1]
    ELSE IF e.t = "L" THEN [raised |-> FALSE, none |-> FALSE, e |-> LineE(e.a, e.b)]
    ELSE [raised |-> FALSE, none |-> TRUE, e |-> e]

\* cleanEdges of inlayBottomEdgesToWires handed to Part.sortEdges
CleanEdges(faces, dup) ==
    IF \E k \in 1..Len(dup) : dup[k].raised THEN WireRaised
    ELSE IF Len(dup) = 0 THEN VerticalLineWire(faces)
    ELSE IF \E k \in 1..Len(dup) : dup[k].none THEN WireRaised  \* sortEdges of None
    ELSE Compound([k \in 1..Len(dup) |-> dup[k].e])

\* inlayBottomEdgesToWires(inlay, edges); the up module skips the edges that
\* have one vertex
inlayBottomEdgesToWires(faces, edges, up) ==
    IF Len(edges) = 0 THEN VerticalLineWire(faces)
    ELSE IF up
    THEN CleanEdges(faces, [k \in 1..Len(SelectSeq(edges, LAMBDA e : NumVertexes(e) > 1)) |->
            duplicateArc(SelectSeq(edges, LAMBDA e : NumVertexes(e) > 1)[k])])
    ELSE CleanEdges(faces, [k \in 1..Len(edges) |-> duplicateArc(edges[k])])

\* the edge list the wireType selects from the lists l
Selected(l, wireType) ==
    CASE wireType = "Inlay" -> l.o \o l.b \o l.k \o l.s
      [] wireType = "Midline" -> l.b \o l.o
      [] wireType = "Bottom" -> l.b
      [] wireType = "Top" -> l.r
      [] OTHER -> <<>>

\* the wireType dispatch at the end of identifyInsideInlayPathWires
InsideWires(faces, wireType, l, up) ==
    IF l.raised THEN WireRaised
    ELSE IF wireType = "Inlay" THEN Compound(Selected(l, wireType))
    ELSE IF wireType = "Midline" THEN inlayEdgesToWires(faces, Selected(l, wireType))
    ELSE IF wireType = "Bottom" THEN inlayBottomEdgesToWires(faces, Selected(l, wireType), up)
    ELSE IF wireType = "Top" THEN inlayEdgesToWires(faces, Selected(l, wireType))
    ELSE WireNone

\* the wireType dispatch at the end of identifyOutsideInlayPathWires
OutsideWires(faces, wireType, l) ==
    IF l.raised THEN WireRaised
    ELSE IF wireType = "Inlay" THEN Compound(Selected(l, wireType))
    ELSE IF wireType \in {"Midline", "Bottom", "Top"}
    THEN inlayEdgesToWires(faces, Selected(l, wireType))
    ELSE WireNone

identifyInsideInlayPathWires(faces, wireType, obtusePoints, up) ==
    InsideWires(faces, wireType, EdgeLists(faces, obtusePoints, TRUE), up)

identifyOutsideInlayPathWires(faces, wireType, obtusePoints, up) ==
    OutsideWires(faces, wireType, EdgeLists(faces, obtusePoints, FALSE))

\* the edge list the wireType of a job selects
SelectedEdges(job) ==
    Selected(EdgeLists(job.faces, job.obtusePoints, job.inside), job.wireType)

(***************************************************************************)
(* Face sets for the wire extraction: line walls, a flat cap in the rim    *)
(* plane, a conical face (rim arc, bottom arc, two seams), a corner cone   *)
(* section (tip at the rim, arc at the bottom).                            *)
(***************************************************************************)
WirePool ==
    << Poly(<<T(0), T(1), B(1), B(0)>>),
       Poly(<<T(1), T(2), B(2), B(1)>>),
       Poly(<<T(0), T(1), B(0)>>),
       Poly(<<T(0), T(1), <<1, 1, 2>>>>),
       << ArcE(T(0), T(2), <<2, 1, 4>>, 3, 2), LineE(T(2), B(2)),
          ArcE(B(2), B(0), <<2, 3, 0>>, 2, 1), LineE(B(0), T(0)) >>,
       << LineE(T(1), B(1)), ArcE(B(1), B(2), <<3, 3, 0>>, 1, 1), LineE(B(2), T(1)) >> >>

WireSeqs ==
    LET idx == UNION {[1..n -> 1..Len(WirePool)] : n \in 1..MaxWireFaces}
        inj(s) == \A i, j \in 1..Len(s) : i # j => s[i] # s[j]
    IN {[k \in 1..Len(s) |-> WirePool[s[k]]] : s \in {x \in idx : inj(x)}}

InitWires ==
    /\ \E fs \in WireSeqs, wt \in {"None", "Inlay", "Midline", "Bottom", "Top", "Other"},
             ops \in {<<>>, <<T(0)>>, <<T(1)>>, <<T(0), T(1)>>}, ins, u \in BOOLEAN :
          wjob = [faces |-> fs, wireType |-> wt, obtusePoints |-> ops,
                  inside |-> ins, up |-> u]
    /\ wout = Idle /\ ajob = Idle /\ asm = Idle /\ fedge = Idle /\ owire = Idle
    /\ caller = "direct" /\ call = Idle /\ args = Idle /\ inlay = Idle /\ pc = "wires"
    /\ passIn = <<>> /\ handed = <<>> /\ lastPass = "none"

\* makeInlayDown / makeInlayUp: wireType "None" skips the call
IdentifyInside ==
    /\ wout = Idle /\ wjob.inside /\ wjob.wireType # "None"
    /\ wout' = identifyInsideInlayPathWires(wjob.faces, wjob.wireType,
                                            wjob.obtusePoints, wjob.up)
    /\ UNCHANGED <<caller, call, args, inlay, pc, passIn, handed, lastPass, wjob, ajob, asm, fedge, owire>>

\* makeOutlayDown / makeOutlayUp
IdentifyOutside ==
    /\ wout = Idle /\ ~wjob.inside /\ wjob.wireType # "None"
    /\ wout' = identifyOutsideInlayPathWires(wjob.faces, wjob.wireType,
                                             wjob.obtusePoints, wjob.up)
    /\ UNCHANGED <<caller, call, args, inlay, pc, passIn, handed, lastPass, wjob, ajob, asm, fedge, owire>>

\* wireType "None": the caller returns wire = None
SkipWires ==
    /\ wout = Idle /\ wjob.wireType = "None"
    /\ wout' = WireNone
    /\ UNCHANGED <<caller, call, args, inlay, pc, passIn, handed, lastPass, wjob, ajob, asm, fedge, owire>>

NextWires == IdentifyInside \/ IdentifyOutside \/ SkipWires

SpecWires == InitWires /\ [][NextWires]_vars

(***************************************************************************)
(* Raw assembly (InlayClosed.py, InlayClosedUp.py).  Profile edges lie in  *)
(* the XY plane: [t, a, b, c, r] with the type letter, the two end points, *)
(* and the centre and radius of an arc.  Directions are the eight grid     *)
(* directions, so every bearing is a multiple of 45 degrees.               *)
(***************************************************************************)
PLine(a, b) == [t |-> "L", a |-> a, b |-> b, c |-> <<0, 0>>, r |-> 0]

PArc(a, b, c, r) == [t |-> "C", a |-> a, b |-> b, c |-> c, r |-> r]

\* an edge whose curve is neither a line nor a circle
PSpline(a, b) == [t |-> "B", a |-> a, b |-> b, c |-> <<0, 0>>, r |-> 0]

Sub(p, q) == <<p[1] - q[1], p[2] - q[2]>>

\* Support._vector_to_degrees: atan2 in degrees, in [0, 360)
vector_to_degrees(v) ==
    CASE v[1] > 0 /\ v[2] = 0 -> 0
      [] v[1] > 0 /\ v[2] > 0 -> 45
      [] v[1] = 0 /\ v[2] > 0 -> 90
      [] v[1] < 0 /\ v[2] > 0 -> 135
      [] v[1] < 0 /\ v[2] = 0 -> 180
      [] v[1] < 0 /\ v[2] < 0 -> 225
      [] v[1] = 0 /\ v[2] < 0 -> 270
      [] v[1] > 0 /\ v[2] < 0 -> 315
      [] OTHER -> 0

\* Support._normalizeDegrees
normalizeDegrees(a) == IF a >= 360 THEN a - 360 ELSE IF a < 0 THEN a + 360 ELSE a

\* the two range corrections at the end of _calculateArcStartAngle
ArcAngleRange(ang) ==
    IF ang < 0 THEN ang + 360
    ELSE IF ang >= 360 THEN ang - 360
    ELSE ang

\* _calculateArcStartAngle(e, flip)
calculateArcStartAngle(e, flip) ==
    ArcAngleRange(vector_to_degrees(Sub(e.a, e.c)) - 90 + (IF flip THEN 180 ELSE 0))

\* _calculateArcEndAngle(e, flip), for an edge that has a second vertex
calculateArcEndAngle(e, flip) ==
    ArcAngleRange(vector_to_degrees(Sub(e.b, e.c)) - 90 + (IF flip THEN 180 ELSE 0))

\* faces of the raw inlay: the face swept from edge ei, or the connection face
\* at the start point of edge ei
Face(kind, ei, inside, arcAng) ==
    [kind |-> kind, ei |-> ei, inside |-> inside, arcAng |-> arcAng]

\* what _makeInlayFace / _makeInlayFaceCW hand back, or the exception
FaceOk(eType, f, start, end) ==
    [status |-> "ok", eType |-> eType, f |-> f, start |-> start, end |-> end]

FaceFail(status) ==
    [status |-> status, eType |-> "", f |-> Face("None", 0, FALSE, 0), start |-> 0, end |-> 0]

\* the Part::GeomLine branch: _makeRectangularFace has no depth test; with
\* depthOfCut = 0 the face has no width and the kernel may refuse to build it
LineBranch(e, ei, depthOfCut, isInside, degenerate) ==
    IF depthOfCut = 0 /\ degenerate THEN FaceFail("OCCError")
    ELSE FaceOk("GL", Face("rect", ei, isInside, 0),
                normalizeDegrees(vector_to_degrees(Sub(e.b, e.a))),
                normalizeDegrees(vector_to_degrees(Sub(e.b, e.a))))

\* the Part::GeomCircle branch: _makeConicalFace returns None when
\* depthOfCut <= 0 and the three-value unpack raises; the end angle reads
\* e.Vertexes[1]; flip is set when the face is rebuilt on the other side
CircleBranch(e, ei, depthOfCut, isInside, flip) ==
    IF depthOfCut <= 0 THEN FaceFail("TypeError")
    ELSE IF NumVertexes(e) < 2 THEN FaceFail("IndexError")
    ELSE FaceOk("GC", Face("cone", ei, IF flip THEN ~isInside ELSE isInside, 0),
                calculateArcStartAngle(e, flip), calculateArcEndAngle(e, flip))

\* any other curve: PrintError and return None, which the six-value unpack of
\* the caller turns into a TypeError
unsupportedEdge_dropped(e) == FaceOk("", Face("None", 0, FALSE, 0), 0, 0)

unsupportedEdge(e) == FaceFail("Unsupported")

\* InlayClosed._makeInlayFaceCW: "_isCommon(...) or True", never rebuilt
makeInlayFaceCW(e, ei, depthOfCut, isInside, k) ==
    IF e.t = "C" THEN CircleBranch(e, ei, depthOfCut, isInside, FALSE)
    ELSE IF e.t = "L" THEN LineBranch(e, ei, depthOfCut, isInside, k.degenerate)
    ELSE unsupportedEdge(e)

\* _makeInlayFace (both modules): rebuilt on the other side when _isCommon
\* is false
makeInlayFace(e, ei, depthOfCut, isInside, k) ==
    IF e.t = "C" THEN CircleBranch(e, ei, depthOfCut, isInside, ~k.common)
    ELSE IF e.t = "L" THEN LineBranch(e, ei, depthOfCut, isInside, k.degenerate)
    ELSE unsupportedEdge(e)

\* the face builder and side each assembly uses
MakeFace(job, e, ei, isInside, k) ==
    IF ~job.up /\ ~job.outlay
    THEN makeInlayFaceCW(e, ei, job.depthOfCut, isInside, k)
    ELSE makeInlayFace(e, ei, job.depthOfCut, isInside, k)

\* the connection test and arc angle of clockwiseWireToRawInlay
InlayConnects_turnedOut(angDiff) == angDiff > 180 \/ (-180 < angDiff /\ angDiff < 0)

InlayConnects(angDiff) ==
    (0 < angDiff /\ angDiff < 180) \/ (-360 < angDiff /\ angDiff < -180)

\* the connection test and arc angle of clockwiseWireToRawOutlay
OutlayConnects_anyNegative(angDiff) == angDiff > 180 \/ angDiff < 0

OutlayConnects(angDiff) == angDiff > 180 \/ (-180 < angDiff /\ angDiff < 0)

Connects(job, angDiff) ==
    IF job.outlay THEN OutlayConnects(angDiff) ELSE InlayConnects(angDiff)

ArcAng_absolute(job, angDiff) == IF angDiff < 0 THEN -angDiff ELSE angDiff

ArcAng(job, angDiff) ==
    IF job.outlay THEN (IF angDiff > 180 THEN 360 - angDiff ELSE -angDiff)
    ELSE (IF angDiff < 0 THEN angDiff + 360 ELSE angDiff)

\* states of the assembly: besides the locals of the function, startAng and
\* angDiff are the edgeStartAng and angDiff the last connection test was made
\* with, realigned tells whether that loop pass went through the seam
\* correction, altIsInside and edgeEndAng2 are the flag and the end angle of
\* its second build
AsmRaised(st, err) == [st EXCEPT !.pc = "raised", !.err = err]

\* the end of a loop pass: connection face if needed, then the swept face.
\* _makeConnectionFace returns None when depthOfCut <= 0; the square corner
\* conversion reads its BoundBox.
Connect_endVertex(job, st, e, ei, f, angDiff, edgeEndAng) ==
    IF ~Connects(job, angDiff)
    THEN [st EXCEPT !.i = st.i + 1, !.faces = Append(st.faces, f),
                    !.angDiff = angDiff, !.lastEndAng = edgeEndAng]
    ELSE IF job.depthOfCut <= 0 /\ ~job.roundCorners THEN AsmRaised(st, "AttributeError")
    ELSE [st EXCEPT !.i = st.i + 1, !.angDiff = angDiff,
                    !.obtusePoints = Append(st.obtusePoints, e.b),
                    !.faces = st.faces \o
                        << Face(IF job.depthOfCut <= 0 THEN "None"
                                       ELSE IF job.roundCorners THEN "connect"
                                       ELSE "square",
                                       ei, ~job.outlay, ArcAng(job, angDiff)), f >>,
                    !.lastEndAng = edgeEndAng]

Connect(job, st, e, ei, f, angDiff, edgeEndAng) ==
    IF ~Connects(job, angDiff)
    THEN [st EXCEPT !.i = st.i + 1, !.faces = Append(st.faces, f),
                    !.angDiff = angDiff, !.lastEndAng = edgeEndAng]
    ELSE IF job.depthOfCut <= 0 /\ ~job.roundCorners THEN AsmRaised(st, "AttributeError")
    ELSE [st EXCEPT !.i = st.i + 1, !.angDiff = angDiff,
                    !.obtusePoints = Append(st.obtusePoints, e.a),
                    !.faces = st.faces \o
                        << Face(IF job.depthOfCut <= 0 THEN "None"
                                       ELSE IF job.roundCorners THEN "connect"
                                       ELSE "square",
                                       ei, ~job.outlay, ArcAng(job, angDiff)), f >>,
                    !.lastEndAng = edgeEndAng]

\* the seam correction of the down module: the face is built again on the
\* inside and a negative difference is shifted by 180, as is the end angle of
\* the first build
Realign(job, st, e, ei, r, r2) ==
    IF r2.status # "ok" THEN AsmRaised(st, "TypeError")
    ELSE IF r2.start - st.lastEndAng < 0
    THEN Connect(job, [st EXCEPT !.startAng = r2.start, !.realigned = TRUE,
                                 !.altIsInside = TRUE, !.edgeEndAng2 = r2.end],
                 e, ei, r2.f, r2.start - st.lastEndAng + 180, r.end + 180)
    ELSE Connect(job, [st EXCEPT !.startAng = r2.start, !.realigned = TRUE,
                                 !.altIsInside = TRUE, !.edgeEndAng2 = r2.end],
                 e, ei, r2.f, r2.start - st.lastEndAng, r.end)

\* one pass of the loop once the face r of edge e is built
LoopBody(job, st, e, ei, r, k) ==
    IF r.status = "Unsupported" THEN AsmRaised(st, "TypeError")
    ELSE IF r.status # "ok" THEN AsmRaised(st, r.status)
    ELSE IF ~job.up /\ r.eType = "GC" /\ k.notAligned
    THEN Realign(job, st, e, ei, r,
                 MakeFace(job, e, ei, TRUE, [k EXCEPT !.common = k.common2]))
    ELSE Connect(job, [st EXCEPT !.startAng = r.start, !.realigned = FALSE],
                 e, ei, r.f, r.start - st.lastEndAng, r.end)

\* the start of the function: the face of w.Edges[0]
FirstFace(st, r) ==
    IF r.status = "Unsupported" THEN AsmRaised(st, "TypeError")
    ELSE IF r.status # "ok" THEN AsmRaised(st, r.status)
    ELSE [st EXCEPT !.pc = "loop", !.i = 1, !.faces = <<r.f>>, !.lastEndAng = r.end]

\* w.Edges[1:] + [w.Edges[0]]: the index in w of the edge of loop pass i
LoopEdge(w, i) == IF i < Len(w) THEN i + 1 ELSE 1

\* fuseShapes on the list of faces: a list that holds None cannot be fused,
\* unless None is its only entry
FuseFaces(st, faces) ==
    IF Len(faces) > 1 /\ \E n \in 1..Len(faces) : faces[n].kind = "None"
    THEN AsmRaised(st, "AttributeError")
    ELSE [st EXCEPT !.pc = "done", !.faces = faces,
                    !.result = [shape |-> fuseShapes(faces),
                                obtusePoints |-> st.obtusePoints]]

(***************************************************************************)
(* Clockwise profiles.                                                     *)
(***************************************************************************)
\* the closed polygon through the points ps
RECURSIVE PolyLine(_)
PolyLine(ps) ==
    IF Len(ps) < 2 THEN <<>>
    ELSE Append(PolyLine(Front(ps)), PLine(ps[Len(ps) - 1], ps[Len(ps)]))

Square == PolyLine(<< <<0, 0>>, <<0, 10>>, <<10, 10>>, <<10, 0>>, <<0, 0>> >>)

FullCircle == << PArc(<<0, 1>>, <<0, 1>>, <<1, 1>>, 1) >>

\* the square, an L-shaped polygon, a triangle, the circle, two half circles,
\* a line and a half circle, a slot, a square with a spline side and a closed
\* spline
Profiles ==
    { Square,
      PolyLine(<< <<0, 0>>, <<0, 2>>, <<1, 2>>, <<1, 1>>, <<2, 1>>, <<2, 0>>, <<0, 0>> >>),
      PolyLine(<< <<0, 0>>, <<0, 2>>, <<2, 0>>, <<0, 0>> >>),
      FullCircle,
      << PArc(<<0, 1>>, <<2, 1>>, <<1, 1>>, 1), PArc(<<2, 1>>, <<0, 1>>, <<1, 1>>, 1) >>,
      << PLine(<<0, 0>>, <<0, 2>>), PArc(<<0, 2>>, <<0, 0>>, <<0, 1>>, 1) >>,
      << PLine(<<0, 0>>, <<0, 2>>), PArc(<<0, 2>>, <<2, 2>>, <<1, 2>>, 1),
         PLine(<<2, 2>>, <<2, 0>>), PArc(<<2, 0>>, <<0, 0>>, <<1, 0>>, 1) >>,
      << PLine(<<0, 0>>, <<0, 2>>), PLine(<<0, 2>>, <<2, 2>>),
         PSpline(<<2, 2>>, <<2, 0>>), PLine(<<2, 0>>, <<0, 0>>) >>,
      << PSpline(<<0, 0>>, <<0, 0>>) >> }

\* the answers of the geometry kernel one loop pass depends on
KernelAnswers ==
    [common : BOOLEAN, common2 : BOOLEAN, notAligned : BOOLEAN, degenerate : BOOLEAN]

InitAsm ==
    /\ \E w \in Profiles, depth \in {-1, 0, 5}, rc, o, u \in BOOLEAN :
          ajob = [w |-> w, depthOfCut |-> depth, roundCorners |-> rc,
                  outlay |-> o, up |-> u]
    /\ asm = [pc |-> "start", i |-> 0, faces |-> <<>>, lastEndAng |-> 0,
              startAng |-> 0, angDiff |-> 0, realigned |-> FALSE,
              altIsInside |-> FALSE, edgeEndAng2 |-> 0,
              obtusePoints |-> <<>>, err |-> "", result |-> Idle]
    /\ wjob = Idle /\ wout = Idle /\ fedge = Idle /\ owire = Idle
    /\ caller = "direct" /\ call = Idle /\ args = Idle /\ inlay = Idle /\ pc = "asm"
    /\ passIn = <<>> /\ handed = <<>> /\ lastPass = "none"

AsmUnchanged ==
    UNCHANGED <<caller, call, args, inlay, pc, passIn, handed, lastPass, wjob, wout, ajob,
                fedge, owire>>

\* lastEdge = w.Edges[0] ... faces = [f0]
AsmFirst ==
    /\ asm.pc = "start"
    /\ \E k \in KernelAnswers :
          asm' = FirstFace(asm, MakeFace(ajob, ajob.w[1], 1, ~ajob.outlay, k))
    /\ AsmUnchanged

\* one pass of "for e in w.Edges[1:] + [w.Edges[0]]"
AsmLoop ==
    /\ asm.pc = "loop" /\ asm.i <= Len(ajob.w)
    /\ \E k \in KernelAnswers :
          asm' = LoopBody(ajob, asm, ajob.w[LoopEdge(ajob.w, asm.i)],
                          LoopEdge(ajob.w, asm.i),
                          MakeFace(ajob, ajob.w[LoopEdge(ajob.w, asm.i)],
                                   LoopEdge(ajob.w, asm.i), ~ajob.outlay, k), k)
    /\ AsmUnchanged

\* firstFace = faces.pop(); return fuseShapes(faces), obtusePoints
AsmReturn_noPop ==
    /\ asm.pc = "loop" /\ asm.i > Len(ajob.w)
    /\ asm' = FuseFaces(asm, asm.faces)
    /\ AsmUnchanged

AsmReturn ==
    /\ asm.pc = "loop" /\ asm.i > Len(ajob.w)
    /\ asm' = FuseFaces(asm, Front(asm.faces))
    /\ AsmUnchanged

NextAsm == AsmFirst \/ AsmLoop \/ AsmReturn

SpecAsm == InitAsm /\ [][NextAsm]_vars

(***************************************************************************)
(* Edge and wire direction (utilities/Edge.py).  An edge is a line or a    *)
(* circular arc in the XY plane with its parametric domain [first, last].  *)
(* A line is parametrised by length from its start point.  A circle has a  *)
(* centre c, a radius r, an axis s (1: +Z, -1: -Z) and the angle axu of    *)
(* its X axis; angles are in degrees and multiples of 90.                  *)
(***************************************************************************)
Abs(x) == IF x < 0 THEN -x ELSE x

\* Part.Edge(Part.LineSegment(a, b)): the domain starts at 0
LineSegment(a, b) ==
    [t |-> "L", a |-> a, b |-> b, c |-> <<0, 0>>, r |-> 0, s |-> 1, axu |-> 0,
     first |-> 0, last |-> Abs(b[1] - a[1]) + Abs(b[2] - a[2])]

\* Part.Edge(circle, first, last)
CircleEdge(c, r, s, axu, first, last) ==
    [t |-> "C", a |-> c, b |-> c, c |-> c, r |-> r, s |-> s, axu |-> axu % 360,
     first |-> first, last |-> last]

Cos90(ang) == CASE ang % 360 = 0 -> 1 [] ang % 360 = 180 -> -1 [] OTHER -> 0

Sin90(ang) == CASE ang % 360 = 90 -> 1 [] ang % 360 = 270 -> -1 [] OTHER -> 0

\* the direction from the centre to the point of parameter u: a circle about
\* +Z turns counter-clockwise from its X axis, a circle about -Z has its X
\* axis mirrored and turns clockwise
WorldAngle(e, u) == IF e.s = 1 THEN (e.axu + u) % 360 ELSE (180 - e.axu - u) % 360

\* e.valueAt(u)
valueAt(e, u) ==
    IF e.t = "L" THEN (IF u = e.first THEN e.a ELSE e.b)
    ELSE <<e.c[1] + e.r * Cos90(WorldAngle(e, u)), e.c[2] + e.r * Sin90(WorldAngle(e, u))>>

StartPoint(e) == valueAt(e, e.first)

EndPoint(e) == valueAt(e, e.last)

\* the points of the edge: the segment between its end points, or the points
\* of the arc every 90 degrees
PointSet(e) ==
    IF e.t = "L" THEN {e.a, e.b}
    ELSE {valueAt(e, u) : u \in {x \in e.first..e.last : (x - e.first) % 90 = 0}}

\* _flipLine / _flipLineSegment
flipLine(e) == LineSegment(EndPoint(e), StartPoint(e))

\* _flipCircle: the inverted circle, turned so that it starts where the edge
\* ends; "the edge always starts at 0 and LastParameter is the value range"
flipCircle_notTurned(e) == CircleEdge(e.c, e.r, -e.s, e.axu, 0, e.last - e.first)

flipCircle(e) ==
    CircleEdge(e.c, e.r, -e.s, 180 - (e.last + e.axu), 0, e.last - e.first)

\* _flipEdge / flipEdge, for the two curve types of a profile
flipEdge(e) == IF e.t = "L" THEN flipLine(e) ELSE flipCircle(e)

\* the loop of _orientEdges
RECURSIVE OrientRest(_, _)
OrientRest(edges, rest) ==
    IF rest = <<>> THEN edges
    ELSE OrientRest(Append(edges,
                           IF EndPoint(Last(edges)) = StartPoint(rest[1])
                           THEN rest[1] ELSE flipEdge(rest[1])),
                    Tail(rest))

\* _orientEdges(inEdges)
orientEdges(inEdges) ==
    IF Len(inEdges) > 1
       /\ EndPoint(inEdges[1]) # StartPoint(inEdges[2])
       /\ EndPoint(inEdges[1]) # EndPoint(inEdges[2])
    THEN OrientRest(<<flipEdge(inEdges[1])>>, Tail(inEdges))
    ELSE OrientRest(<<inEdges[1]>>, Tail(inEdges))

\* the shoelace sum of _isWireClockwise over the end points of the edges
RECURSIVE ShoelaceArea(_)
ShoelaceArea(edges) ==
    IF edges = <<>> THEN 0
    ELSE ShoelaceArea(Front(edges))
         + StartPoint(Last(edges))[1] * EndPoint(Last(edges))[2]
         - EndPoint(Last(edges))[1] * StartPoint(Last(edges))[2]

\* _isWireClockwise(w): the wire of properly oriented edges
isWireClockwiseOriented(w) ==
    IF Len(w) <= 2 /\ w[1].t = "C" THEN 0 > w[1].s
    ELSE IF Len(w) = 2 /\ w[2].t = "C" THEN 0 > w[2].s
    ELSE ShoelaceArea(w) < 0

\* flipWire(wire); the flipped edges in reverse order are a connected chain
flipWire(wire) == [k \in 1..Len(wire) |-> flipEdge(wire[Len(wire) + 1 - k])]

\* the second half of orientWire, on the wire of the oriented edges
OrientTo(wire, forward) ==
    IF forward # isWireClockwiseOriented(wire) THEN flipWire(wire) ELSE wire

\* orientWire(w, forward) for forward = True / False
orientWire(w, forward) == OrientTo(orientEdges(w), forward)

(***************************************************************************)
(* Edges and closed wires handed to the flip and orient functions.         *)
(***************************************************************************)
\* line edges whose domain starts at 0 or at 2, arcs of every quarter
FlipEdges ==
    {[LineSegment(a, b) EXCEPT !.first = f, !.last = f + LineSegment(a, b).last] :
        a \in {<<0, 0>>}, b \in {<<2, 0>>, <<0, 3>>}, f \in {0, 2}}
    \cup {CircleEdge(<<2, 2>>, r, s, axu, f, f + span) :
             r \in {1, 2}, s \in {1, -1}, axu \in {0, 90, 180, 270},
             f \in {0, 90, 180}, span \in {90, 180, 270, 360}}

\* the clockwise polygon through the points ps
RECURSIVE LineWire(_)
LineWire(ps) ==
    IF Len(ps) < 2 THEN <<>>
    ELSE Append(LineWire(Front(ps)), LineSegment(ps[Len(ps) - 1], ps[Len(ps)]))

\* the clockwise half circle over the diameter from (0, 2) to (4, 2)
HalfCircle == CircleEdge(<<2, 2>>, 2, -1, 0, 0, 180)

ClosedWires ==
    { LineWire(<< <<0, 0>>, <<0, 2>>, <<2, 2>>, <<2, 0>>, <<0, 0>> >>),
      LineWire(<< <<0, 0>>, <<0, 2>>, <<1, 2>>, <<1, 1>>, <<2, 1>>, <<2, 0>>, <<0, 0>> >>),
      << CircleEdge(<<2, 2>>, 2, -1, 0, 0, 360) >>,
      << HalfCircle, LineSegment(<<4, 2>>, <<0, 2>>) >>,
      << HalfCircle, LineSegment(<<4, 2>>, <<2, 2>>), LineSegment(<<2, 2>>, <<0, 2>>) >>,
      << HalfCircle, LineSegment(<<4, 2>>, <<4, 0>>), LineSegment(<<4, 0>>, <<0, 0>>),
         LineSegment(<<0, 0>>, <<0, 2>>) >> }

\* the wire as a document may hold it: in either direction, with any of its
\* edges stored reversed
Stored(w, reversed, mask) ==
    [k \in 1..Len(w) |->
        IF k \in mask THEN flipEdge((IF reversed THEN flipWire(w) ELSE w)[k])
        ELSE (IF reversed THEN flipWire(w) ELSE w)[k]]

InitFlip ==
    /\ \E e \in FlipEdges : fedge = [pc |-> "edge", e |-> e, once |-> e, twice |-> e]
    /\ owire = Idle
    /\ wjob = Idle /\ wout = Idle /\ ajob = Idle /\ asm = Idle
    /\ caller = "direct" /\ call = Idle /\ args = Idle /\ inlay = Idle /\ pc = "fedge"
    /\ passIn = <<>> /\ handed = <<>> /\ lastPass = "none"

\* flipEdge(e)
FlipOnce ==
    /\ fedge.pc = "edge"
    /\ fedge' = [fedge EXCEPT !.pc = "once", !.once = flipEdge(fedge.e)]
    /\ UNCHANGED <<caller, call, args, inlay, pc, passIn, handed, lastPass, wjob, wout, ajob, asm, owire>>

\* flipEdge(flipEdge(e))
FlipTwice ==
    /\ fedge.pc = "once"
    /\ fedge' = [fedge EXCEPT !.pc = "twice", !.twice = flipEdge(fedge.once)]
    /\ UNCHANGED <<caller, call, args, inlay, pc, passIn, handed, lastPass, wjob, wout, ajob, asm, owire>>

NextFlip == FlipOnce \/ FlipTwice

SpecFlip == InitFlip /\ [][NextFlip]_vars

InitOrient ==
    /\ \E w \in ClosedWires, reversed \in BOOLEAN :
          \E mask \in SUBSET (1..Len(w)) :
             owire = [pc |-> "wire", w |-> Stored(w, reversed, mask),
                       once |-> <<>>, twice |-> <<>>]
    /\ fedge = Idle
    /\ wjob = Idle /\ wout = Idle /\ ajob = Idle /\ asm = Idle
    /\ caller = "direct" /\ call = Idle /\ args = Idle /\ inlay = Idle /\ pc = "owire"
    /\ passIn = <<>> /\ handed = <<>> /\ lastPass = "none"

\* _getInlayDependencies: wire = orientWire(shape.Wires[0], True)
OrientOnce ==
    /\ owire.pc = "wire"
    /\ owire' = [owire EXCEPT !.pc = "once", !.once = orientWire(owire.w, TRUE)]
    /\ UNCHANGED <<caller, call, args, inlay, pc, passIn, handed, lastPass, wjob, wout, ajob, asm, fedge>>

\* _getInlayDependencies: w = orientWire(dataTup[0], True)
OrientTwice ==
    /\ owire.pc = "once"
    /\ owire' = [owire EXCEPT !.pc = "twice", !.twice = orientWire(owire.once, TRUE)]
    /\ UNCHANGED <<caller, call, args, inlay, pc, passIn, handed, lastPass, wjob, wout, ajob, asm, fedge>>

NextOrient == OrientOnce \/ OrientTwice

SpecOrient == InitOrient /\ [][NextOrient]_vars

(***************************************************************************)
(* Support._normalizeDegrees called on its own with any angle.             *)
(***************************************************************************)
InitAngle ==
    /\ call \in {[fn |-> "normalizeDegrees", pc |-> "call", a |-> a, result |-> 0] :
                    a \in (0 - MaxAngle)..MaxAngle}
    /\ caller = "direct" /\ args = Idle /\ inlay = Idle /\ pc = "call"
    /\ passIn = <<>> /\ handed = <<>> /\ lastPass = "none"
    /\ wjob = Idle /\ wout = Idle /\ ajob = Idle /\ asm = Idle
    /\ fedge = Idle /\ owire = Idle

NormalizeDegrees ==
    /\ call.pc = "call"
    /\ call' = [call EXCEPT !.pc = "returned", !.result = normalizeDegrees(call.a)]
    /\ UNCHANGED <<caller, args, inlay, pc, passIn, handed, lastPass, wjob, wout, ajob, asm,
                   fedge, owire>>

NextAngle == NormalizeDegrees

SpecAngle == InitAngle /\ [][NextAngle]_vars

(***************************************************************************)
(* _filterOutSpecialTriangularFaces and its Up mirror called on a list of  *)
(* faces.                                                                  *)
(***************************************************************************)
InitTriangle ==
    /\ call \in {[fn |-> "filterOutSpecialTriangularFaces", pc |-> "call",
                  a |-> [faces |-> F, up |-> u],
                  result |-> [raised |-> FALSE, faces |-> <<>>]] :
                    F \in FaceSeqs, u \in BOOLEAN}
    /\ caller = "direct" /\ args = Idle /\ inlay = Idle /\ pc = "call"
    /\ passIn = <<>> /\ handed = <<>> /\ lastPass = "none"
    /\ wjob = Idle /\ wout = Idle /\ ajob = Idle /\ asm = Idle
    /\ fedge = Idle /\ owire = Idle

FilterOutSpecialTriangularFaces ==
    /\ call.pc = "call"
    /\ call' = [call EXCEPT !.pc = "returned",
                   !.result = IF call.a.up
                              THEN filterOutSpecialTriangularFacesUp(call.a.faces)
                              ELSE filterOutSpecialTriangularFaces(call.a.faces)]
    /\ UNCHANGED <<caller, args, inlay, pc, passIn, handed, lastPass, wjob, wout, ajob, asm,
                   fedge, owire>>

NextTriangle == FilterOutSpecialTriangularFaces

SpecTriangle == InitTriangle /\ [][NextTriangle]_vars

(***************************************************************************)
(* _makeInlayFaceCW and _makeInlayFace called on one arc edge: the quarter *)
(* and half arcs between the four compass points of the unit circle about  *)
(* (1, 1), on either side, with either answer of _isCommon.                *)
(***************************************************************************)
ArcEdges ==
    LET pts == { <<0, 1>>, <<1, 2>>, <<2, 1>>, <<1, 0>> }
    IN {PArc(p, q, <<1, 1>>, 1) : p \in pts, q \in pts} \ {PArc(p, p, <<1, 1>>, 1) : p \in pts}

InitArcFace ==
    /\ call \in {[fn |-> "makeInlayFace", pc |-> "call",
                  a |-> [e |-> e, up |-> u, outlay |-> o, depthOfCut |-> 5,
                         isInside |-> s, common |-> c],
                  result |-> FaceFail("")] :
                    e \in ArcEdges, u \in BOOLEAN, o \in BOOLEAN, s \in BOOLEAN,
                    c \in BOOLEAN}
    /\ caller = "direct" /\ args = Idle /\ inlay = Idle /\ pc = "call"
    /\ passIn = <<>> /\ handed = <<>> /\ lastPass = "none"
    /\ wjob = Idle /\ wout = Idle /\ ajob = Idle /\ asm = Idle
    /\ fedge = Idle /\ owire = Idle

\* the down inlay assembly calls _makeInlayFaceCW, the other three
\* _makeInlayFace
MakeInlayFace ==
    /\ call.pc = "call"
    /\ call' = [call EXCEPT !.pc = "returned",
                   !.result = MakeFace(call.a, call.a.e, 1, call.a.isInside,
                                       [common |-> call.a.common, common2 |-> FALSE,
                                        notAligned |-> FALSE, degenerate |-> FALSE])]
    /\ UNCHANGED <<caller, args, inlay, pc, passIn, handed, lastPass, wjob, wout, ajob, asm,
                   fedge, owire>>

NextArcFace == MakeInlayFace

SpecArcFace == InitArcFace /\ [][NextArcFace]_vars

(***************************************************************************)
(* faceAnalysis called on one face of a face set, with the heights of the  *)
(* set and a list of obtuse points, as the identify functions call it.     *)
(***************************************************************************)
InitFaceAnalysis ==
    /\ call \in UNION {
            {[fn |-> "faceAnalysis", pc |-> "call",
              a |-> [f |-> fs[n], fi |-> n, zMin |-> ShapeZMin(fs),
                     zMax |-> ShapeZMax(fs), obtusePoints |-> ops],
              result |-> [rim |-> <<>>, support |-> <<>>, other |-> <<>>,
                          bottom |-> <<>>, cats |-> <<>>]] :
                n \in 1..Len(fs),
                ops \in {<<>>, <<T(0)>>, <<T(1)>>, <<T(2)>>, <<T(0), T(1)>>, <<T(1), T(2)>>}} :
            fs \in WireSeqs}
    /\ caller = "direct" /\ args = Idle /\ inlay = Idle /\ pc = "call"
    /\ passIn = <<>> /\ handed = <<>> /\ lastPass = "none"
    /\ wjob = Idle /\ wout = Idle /\ ajob = Idle /\ asm = Idle
    /\ fedge = Idle /\ owire = Idle

AnalyseFace ==
    /\ call.pc = "call"
    /\ call' = [call EXCEPT !.pc = "returned",
                   !.result = faceAnalysis(call.a.f, call.a.fi, Len(call.a.f),
                                           call.a.zMin, call.a.zMax,
                                           call.a.obtusePoints)]
    /\ UNCHANGED <<caller, args, inlay, pc, passIn, handed, lastPass, wjob, wout, ajob, asm,
                   fedge, owire>>

NextFaceAnalysis == AnalyseFace

SpecFaceAnalysis == InitFaceAnalysis /\ [][NextFaceAnalysis]_vars

(***************************************************************************)
(* Claims about the topology filters.                                      *)
(***************************************************************************)
FaceSet(faces) == {faces[i] : i \in 1..Len(faces)}

NoRepeat(list) == \A i, j \in 1..Len(list) : i # j => list[i] # list[j]

\* no face of the set has a vertex that no other face of the set shares
NoLoneVertex(faces) ==
    \A i \in 1..Len(faces) : \A v \in FaceSet(Vertexes(faces[i])) :
        \E j \in 1..Len(faces) : j # i /\ v \in FaceSet(Vertexes(faces[j]))

\* C1: the list every filter pass hands to fuseShapes holds at most as many
\* faces as the pass's input and repeats no face (a pass only removes faces).
C1_FilterMonotone == Len(handed) <= Len(passIn) /\ NoRepeat(handed)

\* C2: the lone-vertex filter applied to its own output retains exactly the
\* faces of that output (a fixed point is reached in one pass).
C2_Idempotent == pc = "lone_2" => FaceSet(inlay.faces) = FaceSet(passIn)

\* the face faces[i] has a vertex that no other face of the set shares
HasLoneVertex(faces, i) ==
    \E v \in FaceSet(Vertexes(faces[i])) :
        \A j \in 1..Len(faces) : j # i => v \notin FaceSet(Vertexes(faces[j]))

\* C2 as amended: a second application never adds a face; on a closed profile
\* without the triangle pass it removes exactly the faces of the first output
\* that have a vertex no other retained face shares (a vertex that was shared
\* with removed faces only), so the first output is a fixed point exactly when
\* it has no such face; with any arguments it retains every face of the first
\* output when that output has no such face.
C2_FixedPointWhenShared ==
    pc = "lone_2" =>
        /\ FaceSet(inlay.faces) \subseteq FaceSet(passIn)
        /\ NoLoneVertex(passIn) => FaceSet(passIn) \subseteq FaceSet(inlay.faces)
        /\ (args.isClosed /\ args.isOutside) =>
              FaceSet(inlay.faces) =
                  {passIn[i] : i \in {k \in 1..Len(passIn) : ~HasLoneVertex(passIn, k)}}

\* a second pass on a closed profile that kept shared faces and dropped another
C2_Witness ==
    /\ pc = "lone_2" /\ args.isClosed /\ args.isOutside
    /\ inlay.faces # <<>> /\ Len(inlay.faces) < Len(passIn)

\* C3: when a pass strips every face, filterInlay and the caller in Inlay.py do
\* not raise; the profile ends with an empty result.
C3_NoHardFailure == caller # "direct" => pc # "raised"

\* the Z-mirror of a point, a face and a shape: heights 0, 1, 2 become 2, 1, 0
MirrorPoint(p) == <<p[1], p[2], 2 - p[3]>>

MirrorFace(f) == [i \in 1..Len(f) |-> LineE(MirrorPoint(f[i].a), MirrorPoint(f[i].b))]

MirrorShape(shape) ==
    [none |-> shape.none,
     faces |-> [i \in 1..Len(shape.faces) |-> MirrorFace(shape.faces[i])]]

\* the step u of one module is the mirror image of the step d of the other:
\* same continuation, same outcome, corresponding faces retained
MirrorSteps(d, u) ==
    /\ d.next = u.next
    /\ d.r.raised = u.r.raised
    /\ d.r.shape.none = u.r.shape.none
    /\ FaceSet(MirrorShape(d.r.shape).faces) = FaceSet(u.r.shape.faces)

\* C11: Filters.filterInlay and FiltersUp.filterInlay are mirror images: at
\* every pass both modules have, the other module, given the same arguments and
\* the Z-mirror of the face set, retains the corresponding faces and continues
\* with the same pass.
C11_MirrorPipelines ==
    pc \in {"filter_1", "filter_2", "filter_3", "filter_2b"} =>
        MirrorSteps(PassOf(pc, args, inlay),
                    PassOf(pc, [args EXCEPT !.up = ~args.up], MirrorShape(inlay)))

\* C12: for every input angle a, _normalizeDegrees(a) lies in [0, 360) and is
\* congruent to a modulo 360.
C12_NormalizedRange ==
    call.pc = "returned" =>
        /\ 0 <= call.result /\ call.result < 360
        /\ (call.result - call.a) % 360 = 0

\* the faces of a list that touch the rim height of the list: the top in the
\* down module, the bottom in the up module
RimFaces(faces, up) ==
    {faces[i] : i \in {k \in 1..Len(faces) :
                          IF up THEN FaceZMin(faces[k]) = ShapeZMin(faces)
                          ELSE FaceZMax(faces[k]) = ShapeZMax(faces)}}

\* C16: the rim-touch filter keeps exactly the faces whose top Z is the maximum
\* Z of the face set (bottom Z and minimum Z in the up module); the kept set of
\* a non-empty input is not empty, and when no face is discarded the original
\* face set is returned unchanged, without a new fuse.
C16_RimTouch ==
    lastPass = "filter_1" =>
        /\ pc # "raised" /\ ~inlay.none
        /\ FaceSet(inlay.faces) = RimFaces(passIn, args.up)
        /\ inlay.faces # <<>>
        /\ RimFaces(passIn, args.up) = FaceSet(passIn) =>
              inlay.faces = passIn /\ handed = <<>>

\* the rim-touch filter of the up module discarded a face and kept another
C16_Witness ==
    /\ lastPass = "filter_1" /\ args.up
    /\ Len(inlay.faces) < Len(passIn) /\ inlay.faces # <<>>

\* C17: on a closed profile without the triangle pass the lone-vertex filter
\* retains exactly the input faces none of whose vertices is lone (a vertex is
\* lone when no other face of the input has a vertex at its position).
C17_ClosedLoneVertex ==
    (pc = "lone_1" /\ args.isClosed /\ args.isOutside) =>
        FaceSet(inlay.faces) =
            {passIn[i] : i \in {k \in 1..Len(passIn) : ~HasLoneVertex(passIn, k)}}

\* the filter dropped a face with a lone vertex and retained another face
C17_Witness ==
    /\ pc = "lone_1" /\ args.isClosed /\ args.isOutside
    /\ inlay.faces # <<>> /\ FaceSet(inlay.faces) # FaceSet(passIn)

\* C18: on an open profile without the triangle pass the lone-vertex filter
\* drops a face if and only if it is triangular and has a lone vertex; every
\* face that is not triangular is retained.
C18_OpenLoneVertex ==
    (pc = "lone_1" /\ ~args.isClosed /\ args.isOutside) =>
        FaceSet(inlay.faces) =
            {passIn[i] : i \in {k \in 1..Len(passIn) :
                ~(Len(Vertexes(passIn[k])) = 3 /\ HasLoneVertex(passIn, k))}}

\* the key under which the special-triangle pass flags the face f of a list,
\* <<>> when it does not flag it
FlagOf(f, list, up) ==
    IF Len(f) # 3 THEN <<>>
    ELSE IF up THEN TriangleFaceHasHorizHighEdge(f, ShapeZMin(list))
    ELSE TriangleFaceHasHorizLowEdge(f, ShapeZMax(list))

\* out retains every face of the list in that is not flagged, and of the
\* flagged faces of one key one when their number is odd, none when it is even
XorRetained(in, out, up) ==
    /\ \A k \in 1..Len(in) : FlagOf(in[k], in, up) = <<>> =>
          Cardinality({j \in 1..Len(out) : out[j] = in[k]})
              = Cardinality({j \in 1..Len(in) : in[j] = in[k]})
    /\ \A k \in 1..Len(in) : FlagOf(in[k], in, up) # <<>> =>
          Cardinality({j \in 1..Len(out) : FlagOf(out[j], in, up) = FlagOf(in[k], in, up)})
              = Cardinality({j \in 1..Len(in) :
                                FlagOf(in[j], in, up) = FlagOf(in[k], in, up)}) % 2

\* C19: with any number of flagged triangles the special-triangle pass returns
\* normally, retains every face that is not flagged, and of the flagged
\* triangles of one midpoint key retains one when their number is odd and none
\* when it is even.
C19_TriangleXor ==
    (call.fn = "filterOutSpecialTriangularFaces" /\ call.pc = "returned") =>
        /\ ~call.result.raised
        /\ XorRetained(call.a.faces, call.result.faces, call.a.up)

\* the pairs <<face index, edge index>> of the edges that touch the rim height
\* of the faces without lying entirely at it
RimTouching(faces, up) ==
    {p \in UNION {{<<n, k>> : k \in 1..Len(faces[n])} : n \in 1..Len(faces)} :
        IF up
        THEN /\ EdgeZMin(faces[p[1]][p[2]]) = ShapeZMin(faces)
             /\ EdgeZMax(faces[p[1]][p[2]]) # ShapeZMin(faces)
        ELSE /\ EdgeZMax(faces[p[1]][p[2]]) = ShapeZMax(faces)
             /\ EdgeZMin(faces[p[1]][p[2]]) # ShapeZMax(faces)}

\* the number of those edges that have the midpoint of the edge p
Multiplicity(faces, up, p) ==
    Cardinality({q \in RimTouching(faces, up) :
                    faces[q[1]][q[2]].m = faces[p[1]][p[2]].m})

\* C20 as stated: the isolated-rim-edge filter removes a face if and only if it
\* owns an edge, touching the rim without lying at it, whose midpoint key has
\* odd multiplicity; a face all of whose such edges have even multiplicity is
\* retained.
C20_OddMultiplicity ==
    (lastPass = "filter_3" /\ pc # "raised" /\ passIn # <<>>) =>
        FaceSet(inlay.faces) =
            {passIn[n] : n \in {i \in 1..Len(passIn) :
                \A p \in RimTouching(passIn, args.up) :
                    p[1] = i => Multiplicity(passIn, args.up, p) % 2 = 0}}

\* C20 amended: the filter removes a face if and only if it owns such an edge
\* whose midpoint key occurs once; a key that occurs twice or more, an odd
\* number of times included, removes no face.
C20_UnmatchedOnly ==
    (lastPass = "filter_3" /\ pc # "raised" /\ passIn # <<>>) =>
        FaceSet(inlay.faces) =
            {passIn[n] : n \in {i \in 1..Len(passIn) :
                \A p \in RimTouching(passIn, args.up) :
                    p[1] = i => Multiplicity(passIn, args.up, p) >= 2}}

\* pass 3 ran on faces three of which share one such edge, and retained them
C20_Witness ==
    /\ lastPass = "filter_3" /\ pc # "raised" /\ inlay.faces # <<>>
    /\ \E p \in RimTouching(passIn, args.up) : Multiplicity(passIn, args.up, p) = 3

\* the number of face-edge entries of faces that have the midpoint of edge k of
\* face n
KeyCount(faces, n, k) ==
    Cardinality({q \in UNION {{<<i, j>> : j \in 1..Len(faces[i])} : i \in 1..Len(faces)} :
                    valueAtMidpoint(faces[q[1]][q[2]]) = valueAtMidpoint(faces[n][k])})

\* face n owns an edge whose midpoint key is shared by more than two entries
RemovalCandidate(faces, n) ==
    \E k \in 1..Len(faces[n]) : KeyCount(faces, n, k) > 2

\* face n occurs more than once among the edge keys that occur once
PluralFace(faces, n) ==
    Cardinality({k \in 1..Len(faces[n]) : KeyCount(faces, n, k) = 1}) > 1

\* C21 as stated: in the triple-shared-edge filter a face is a removal
\* candidate exactly when it owns an edge whose midpoint key is shared by more
\* than two face-edge entries; a candidate is dropped unless its index is also
\* in the plural set, in which case it is kept; a face that is not a candidate
\* is kept.
C21_DropUnlessPlural ==
    (lastPass = "filter_4" /\ pc # "raised" /\ passIn # <<>>) =>
        FaceSet(inlay.faces) =
            {passIn[n] : n \in {i \in 1..Len(passIn) :
                ~RemovalCandidate(passIn, i) \/ PluralFace(passIn, i)}}

\* what the code does (Filters.py:355-360): a candidate is dropped when its
\* index is in the plural set and kept otherwise
C21_DropWhenPlural ==
    (lastPass = "filter_4" /\ pc # "raised" /\ passIn # <<>>) =>
        FaceSet(inlay.faces) =
            {passIn[n] : n \in {i \in 1..Len(passIn) :
                ~RemovalCandidate(passIn, i) \/ ~PluralFace(passIn, i)}}

\* the number of a pass in the pipeline (the extra pass is pass 2 again)
PassNumber(name) ==
    CASE name = "filter_1" -> 1 [] name = "filter_2" -> 2 [] name = "filter_2b" -> 2
      [] name = "filter_3" -> 3 [] name = "filter_4" -> 4 [] OTHER -> 0

\* C15 as stated: the passes run in the fixed order 1, 2, 3 (closed profiles
\* only), 4, each on the output of the previous one, none before a
\* lower-numbered one, and a call that returns has run passes 1, 2 and 4
\* whatever the flags are.
C15_FixedOrder ==
    [][/\ lastPass' # lastPass =>
            /\ PassNumber(lastPass') > PassNumber(lastPass)
            /\ passIn' = inlay.faces
            /\ lastPass' = "filter_3" => args.isClosed
       /\ pc' = "return" => lastPass' = "filter_4"]_vars

\* C15 amended: pass 1 runs first and pass 2 second, each pass on the output of
\* the previous one; then the outside branch runs pass 3 on a closed profile
\* and nothing on an open one, and never pass 4; the inside branch never runs
\* pass 3, runs pass 4 in the down module only, and with extra set runs pass 2
\* once more as the last pass.
C15_BranchedOrder ==
    [][/\ lastPass' # lastPass =>
            /\ passIn' = inlay.faces
            /\ lastPass = "none" => lastPass' = "filter_1"
            /\ lastPass = "filter_1" => lastPass' = "filter_2"
            /\ lastPass = "filter_2" =>
                  \/ lastPass' = "filter_3" /\ args.isOutside /\ args.isClosed
                  \/ lastPass' = "filter_4" /\ ~args.isOutside /\ ~args.up
                  \/ lastPass' = "filter_2b" /\ ~args.isOutside /\ args.up /\ args.extra
            /\ lastPass = "filter_4" => lastPass' = "filter_2b" /\ args.extra
            /\ lastPass \notin {"filter_3", "filter_2b"}
       /\ pc' = "return" =>
            lastPass' = IF args.isOutside
                        THEN (IF args.isClosed THEN "filter_3" ELSE "filter_2")
                        ELSE IF args.extra THEN "filter_2b"
                        ELSE IF args.up THEN "filter_2" ELSE "filter_4"]_vars

\* a call on the outside branch returned after pass 3, and pass 4 never ran
C15_Witness == pc = "done" /\ lastPass = "filter_3" /\ args.isOutside /\ ~inlay.none

(***************************************************************************)
(* Claims about the wire extraction.                                       *)
(***************************************************************************)
\* C4: when the edge set selected for the requested wire type (Inlay, Midline,
\* Bottom or Top) is empty, the result is the synthetic vertical line wire at
\* the lowest vertex, so the caller receives a non-empty wire or compound.
C4_NonEmptyWire ==
    (wout # Idle /\ wjob.wireType \in {"Inlay", "Midline", "Bottom", "Top"}
        /\ wout.kind # "raised" /\ SelectedEdges(wjob) = <<>>)
    => (wout = VerticalLineWire(wjob.faces) /\ wout.edges # <<>>)

\* midpoint keys of the edges of a list
EdgeKeys(edges) == {edgeMidpointText(edges[k]) : k \in 1..Len(edges)}

\* midpoint keys of the edges of the faces that have a length and lie entirely
\* at height z
KeysAtHeight(faces, z) ==
    UNION {{edgeMidpointText(faces[n][k]) :
               k \in {i \in 1..Len(faces[n]) :
                         /\ faces[n][i].len > 0
                         /\ EdgeZMin(faces[n][i]) = z /\ EdgeZMax(faces[n][i]) = z}} :
           n \in 1..Len(faces)}

\* C13: in the up module the rim edges, which wireType Top returns, are exactly
\* the edges with a length that lie entirely at the bottom-most Z of the face
\* set.
C13_UpRimAtBottom ==
    (wout # Idle /\ wjob.up /\ wjob.wireType = "Top" /\ wout.kind # "raised")
    => EdgeKeys(SelectedEdges(wjob)) = KeysAtHeight(wjob.faces, ShapeZMin(wjob.faces))

\* midpoint keys of the edges one category holds over all the faces, before
\* the lists are made unique
CatKeys(g, list) == EdgeKeys(AllEdges(g, list))

\* keys of the support edges that are not removed; noLines leaves out the
\* straight ones
SupportKeys(g, noLines) ==
    {edgeMidpointText(AllEdges(g, "support")[k]) :
        k \in {i \in 1..Len(AllEdges(g, "support")) :
                  ~noLines \/ AllEdges(g, "support")[i].t # "L"}}
    \ CatKeys(g, "remove")

\* the keys each wire type names
NamedKeys(g, wireType, noLines) ==
    CASE wireType = "Inlay" ->
           CatKeys(g, "other") \cup CatKeys(g, "bottom") \cup CatKeys(g, "keep")
           \cup SupportKeys(g, noLines)
      [] wireType = "Midline" -> CatKeys(g, "bottom") \cup CatKeys(g, "other")
      [] wireType = "Bottom" -> CatKeys(g, "bottom")
      [] wireType = "Top" -> CatKeys(g, "rim")
      [] OTHER -> {}

\* keys of the edges handed to the chainer (none when the vertical line wire or
\* None is returned)
HandedKeys(w) == IF w.kind = "compound" THEN EdgeKeys(w.edges) ELSE {}

JobGroups(job) ==
    SortEdgeGroups(job.faces, ShapeZMin(job.faces), ShapeZMax(job.faces),
                   job.obtusePoints, job.inside)

\* C14 as stated: the edges handed to the chainer are Inlay = other + bottom +
\* kept + (support minus removed), Midline = bottom + other, Bottom = bottom,
\* Top = rim, every edge of the named categories and no other, in the inside
\* and in the outside function; any other wireType returns None.
C14_WireComposition ==
    (wout # Idle /\ wjob.wireType # "None" /\ wout.kind # "raised") =>
        /\ HandedKeys(wout) = NamedKeys(JobGroups(wjob), wjob.wireType, FALSE)
        /\ wjob.wireType = "Other" => wout = WireNone

\* C14 amended: as stated for the inside function; in the outside function the
\* support edges of wire type Inlay are the support edges minus the removed
\* ones minus the straight ones.
C14_WireCompositionNoLines ==
    (wout # Idle /\ wjob.wireType # "None" /\ wout.kind # "raised") =>
        /\ HandedKeys(wout) = NamedKeys(JobGroups(wjob), wjob.wireType, ~wjob.inside)
        /\ wjob.wireType = "Other" => wout = WireNone

\* the outside function returned an Inlay wire and left out a straight support
\* edge that was not removed
C14_Witness ==
    /\ wout # Idle /\ ~wjob.inside /\ wjob.wireType = "Inlay" /\ wout.kind = "compound"
    /\ wout.edges # <<>>
    /\ SupportKeys(JobGroups(wjob), FALSE) # SupportKeys(JobGroups(wjob), TRUE)

\* the tag that describes edge e: its type letter, in upper case when the
\* entire edge is at rim height
TagOf(e, zMax) == IF EdgeZMin(e) = zMax THEN e.t ELSE Lower(e.t)

\* C29: the position of a tag in the cats string faceAnalysis returns is the
\* index of the edge it describes in the face's edge list; "C" marks an arc
\* entirely at rim height and the first "c" an arc entirely at bottom height,
\* so the edges at cats.index("C") and cats.index("c") are the rim arc and the
\* bottom arc of the face.
C29_CatsAligned ==
    (call.pc = "returned") =>
        /\ \A k \in 1..Len(call.result.cats) :
              call.result.cats[k] = TagOf(call.a.f[k], call.a.zMax)
        /\ InSeq("C", call.result.cats) =>
              /\ call.a.f[CatsIndex(call.result.cats, "C")].t = "C"
              /\ EdgeZMin(call.a.f[CatsIndex(call.result.cats, "C")]) = call.a.zMax
        /\ InSeq("c", call.result.cats) =>
              /\ call.a.f[CatsIndex(call.result.cats, "c")].t = "C"
              /\ EdgeZMax(call.a.f[CatsIndex(call.result.cats, "c")]) = call.a.zMin

\* C30: the edge list chained for wireType Inlay (other + bottom + kept +
\* support minus removed) never holds two edges with the same midpoint key,
\* also when adjacent faces classify one shared edge differently.
C30_NoDuplicateEdge ==
    (wout # Idle /\ wjob.wireType = "Inlay" /\ wout.kind = "compound") =>
        \A i, j \in 1..Len(wout.edges) :
            i # j => edgeMidpointText(wout.edges[i]) # edgeMidpointText(wout.edges[j])

(***************************************************************************)
(* Claims about the raw assembly.                                          *)
(***************************************************************************)
CountKind(faces, kind) == Cardinality({n \in 1..Len(faces) : faces[n].kind = kind})

AsmEnded == asm.pc \in {"done", "raised"}

Unsupported(e) == e.t \notin {"L", "C"}

\* the loop pass at which the assembly is, or at which it raised, handles an
\* edge other than the first whose curve is neither a line nor a circle
AtUnsupportedEdge ==
    /\ asm.i >= 1 /\ asm.i < Len(ajob.w)
    /\ Unsupported(ajob.w[LoopEdge(ajob.w, asm.i)])

\* C5: with depthOfCut <= 0 the assembly (inlay and outlay, first edge a line
\* or an arc) ends without an exception, has built no face and returns
\* (None, []).
C5_DepthPrecondition ==
    (ajob.depthOfCut <= 0 /\ AsmEnded)
    => /\ asm.pc = "done"
       /\ asm.faces = <<>>
       /\ asm.result = [shape |-> NoneShape, obtusePoints |-> <<>>]

SquareJob == ajob.w = Square /\ ajob.depthOfCut = 5 /\ ajob.roundCorners /\ ~ajob.up

\* C7 as stated: the raw inlay of the clockwise square has 4 rectangular
\* faces, 4 connection faces and 4 obtuse points.
C7_SquareInlayConnected ==
    (SquareJob /\ ~ajob.outlay /\ AsmEnded)
    => /\ asm.pc = "done"
       /\ CountKind(asm.result.shape.faces, "rect") = 4
       /\ CountKind(asm.result.shape.faces, "connect") = 4
       /\ Len(asm.result.obtusePoints) = 4

\* C7 amended: the raw inlay of the clockwise square has exactly 4 rectangular
\* faces, no connection face and no obtuse point (every corner turns by -90 or
\* 270 degrees, outside both ranges of the inlay test); it is the raw outlay
\* that has 4 rectangular faces, 4 connection faces, one per corner, and 4
\* obtuse points.
C7_SquareFaces ==
    (SquareJob /\ AsmEnded)
    => /\ asm.pc = "done"
       /\ Len(asm.result.shape.faces) = 4 + Len(asm.result.obtusePoints)
       /\ CountKind(asm.result.shape.faces, "rect") = 4
       /\ CountKind(asm.result.shape.faces, "connect") = Len(asm.result.obtusePoints)
       /\ asm.result.obtusePoints =
             IF ajob.outlay
             THEN << <<0, 10>>, <<10, 10>>, <<10, 0>>, <<0, 0>> >>
             ELSE <<>>

C7_Witness ==
    /\ SquareJob /\ ~ajob.outlay /\ asm.pc = "done"
    /\ Len(asm.result.shape.faces) = 4

\* C8: the profile of one full-circle edge ends with exactly one conical face,
\* no connection face and an empty obtusePoints list.
C8_FullCircle ==
    (ajob.w = FullCircle /\ ajob.depthOfCut > 0 /\ AsmEnded)
    => /\ asm.pc = "done"
       /\ CountKind(asm.result.shape.faces, "cone") = 1
       /\ Len(asm.result.shape.faces) = 1
       /\ asm.result.obtusePoints = <<>>

\* a loop pass of the assembly has just ended
AfterLoopPass == asm.pc = "loop" /\ asm.i >= 2

\* that loop pass appended a connection face in front of its swept face
ConnectedLast ==
    /\ Len(asm.faces) >= 2
    /\ asm.faces[Len(asm.faces) - 1].kind \in {"connect", "square"}
    /\ asm.faces[Len(asm.faces) - 1].ei = asm.faces[Len(asm.faces)].ei

\* C22 as stated: in the outlay assembly (down and up) a connection face is
\* made at the vertex between two consecutive edges if and only if
\* angleDiff = startAngle - lastEndAngle is above 180 or below 0.
C22_OutlayAnyNegative ==
    (ajob.outlay /\ ajob.depthOfCut > 0 /\ AfterLoopPass) =>
        (ConnectedLast <=> (asm.angDiff > 180 \/ asm.angDiff < 0))

\* C22 amended: the connection face is made if and only if angleDiff is above
\* 180 or strictly between -180 and 0; a difference of -180 or below makes none.
C22_OutlayRightTurn ==
    (ajob.outlay /\ ajob.depthOfCut > 0 /\ AfterLoopPass) =>
        (ConnectedLast <=>
            (asm.angDiff > 180 \/ (-180 < asm.angDiff /\ asm.angDiff < 0)))

\* an outlay loop pass with a difference of -180 or below, and one above 180
C22_Witness ==
    /\ ajob.outlay /\ ajob.depthOfCut > 0 /\ AfterLoopPass
    /\ asm.angDiff <= -180 /\ ~ConnectedLast
    /\ \E n \in 1..Len(asm.faces) : asm.faces[n].kind \in {"connect", "square"}

\* the connection faces in a list of faces, in order
ConnectionFaces(faces) ==
    SelectSeq(faces, LAMBDA f : f.kind \in {"connect", "square"})

SweptFaces(faces) ==
    SelectSeq(faces, LAMBDA f : f.kind \in {"rect", "cone"})

\* C24: for a profile of n edges the loop passes process the edges 1..n-1 and
\* then edge 0 again, and the list that is fused holds exactly n swept
\* faces, one per profile edge in profile order: the swept face of the repeated
\* first edge is dropped, and a connection face made at the closing vertex in
\* the last loop pass is retained, as the last entry of the list.
C24_WrapAround ==
    /\ AfterLoopPass =>
        Last(asm.faces).ei = (IF asm.i <= Len(ajob.w) THEN asm.i ELSE 1)
    /\ asm.pc = "done" =>
        /\ Len(SweptFaces(asm.faces)) = Len(ajob.w)
        /\ \A n \in 1..Len(ajob.w) : SweptFaces(asm.faces)[n].ei = n
        /\ Len(ConnectionFaces(asm.faces)) = Len(asm.obtusePoints)
        /\ \/ Last(asm.faces) = Last(SweptFaces(asm.faces))
           \/ /\ Last(asm.faces) = Last(ConnectionFaces(asm.faces))
              /\ Last(asm.faces).ei = 1
              /\ Last(asm.obtusePoints) = ajob.w[1].a

\* a returned assembly of three edges or more whose last pass made a
\* connection face at the closing vertex
C24_Witness ==
    /\ asm.pc = "done" /\ Len(ajob.w) >= 3
    /\ Last(asm.faces).kind \in {"connect", "square"}
    /\ Last(asm.faces).ei = 1

\* C25: in every variant of the face builder, when the _isCommon test fails for
\* the conical face of an arc edge, the face returned is the one rebuilt with
\* the opposite isInside flag and the start and end bearings returned are the
\* ones turned by 180 degrees; the first-built face and the plain bearings are
\* returned only when _isCommon is true.
C25_RebuiltWhenNotCommon ==
    (call.pc = "returned" /\ call.a.e.t = "C") =>
        /\ call.result.status = "ok"
        /\ call.result.f.inside = (call.a.isInside = call.a.common)
        /\ call.result.start =
              (calculateArcStartAngle(call.a.e, FALSE)
                  + (IF call.a.common THEN 0 ELSE 180)) % 360
        /\ call.result.end =
              (calculateArcEndAngle(call.a.e, FALSE)
                  + (IF call.a.common THEN 0 ELSE 180)) % 360

\* a loop pass that went through the seam correction
RealignedPass ==
    /\ asm.pc = "loop" /\ asm'.pc = "loop" /\ asm'.i = asm.i + 1
    /\ asm'.realigned

\* C26: when the face of an arc edge is not aligned with lastFace, the face is
\* rebuilt with the orientation flag opposite to the one of the first build,
\* angleDiff is recomputed from the start angle of the rebuilt face, and the
\* end angle carried to the next loop pass is the one of the rebuilt face, in
\* the inlay and in the outlay assembly.
C26_SeamCorrection ==
    [][RealignedPass =>
        /\ asm'.altIsInside = ajob.outlay
        /\ asm'.angDiff \in {asm'.startAng - asm.lastEndAng,
                             asm'.startAng - asm.lastEndAng + 180}
        /\ asm'.lastEndAng = asm'.edgeEndAng2]_vars

\* C27: in every loop pass of the inlay and outlay assembly, also after a seam
\* correction, the carried lastEndAng and the edgeStartAng lie in [0, 360) and
\* the angDiff the connection test is made with lies strictly between -360
\* and 360.
C27_AngleRange ==
    (asm.pc = "loop" /\ asm.i >= 1) =>
        /\ 0 <= asm.lastEndAng /\ asm.lastEndAng < 360
        /\ asm.i >= 2 =>
              /\ 0 <= asm.startAng /\ asm.startAng < 360
              /\ -360 < asm.angDiff /\ asm.angDiff < 360

\* C28: every connection face, in inlay and outlay assembly of both modules and
\* also after a seam correction, is built with a sweep angle strictly between
\* 0 and 180 degrees (so the square corner never divides by cos(90 degrees)).
C28_SweepAngle ==
    \A n \in 1..Len(asm.faces) :
        asm.faces[n].kind \notin {"rect", "cone"} =>
            (0 < asm.faces[n].arcAng /\ asm.faces[n].arcAng < 180)

\* a connection face made in the loop pass after a seam correction, from
\* the end angle of 360 or more that the correction had carried on, in an
\* assembly that made a connection face in the seam correction as well
C28_Witness ==
    /\ AfterLoopPass /\ ConnectedLast /\ ~asm.realigned
    /\ asm.startAng - asm.angDiff >= 360
    /\ Len(ConnectionFaces(asm.faces)) >= 2

(***************************************************************************)
(* Claims about the orientation of wires and edges.                        *)
(***************************************************************************)
\* C9: the wire orientWire(w, True) returns is reported clockwise by
\* _isWireClockwise, and orienting it again returns the same edges in the
\* same order and direction.
C9_OrientClockwiseIdempotent ==
    /\ owire.pc \in {"once", "twice"} => isWireClockwiseOriented(owire.once)
    /\ owire.pc = "twice" => owire.twice = owire.once

SameRange(e1, e2) == e1.first = e2.first /\ e1.last = e2.last

\* C10 as stated: a flip swaps start and end point and keeps the point set;
\* the edge flipped twice has the start point, end point, point set and the
\* parametric domain (FirstParameter, LastParameter) of the edge.
C10_FlipRoundTrip ==
    /\ fedge.pc \in {"once", "twice"} =>
          /\ StartPoint(fedge.once) = EndPoint(fedge.e)
          /\ EndPoint(fedge.once) = StartPoint(fedge.e)
          /\ PointSet(fedge.once) = PointSet(fedge.e)
    /\ fedge.pc = "twice" =>
          /\ StartPoint(fedge.twice) = StartPoint(fedge.e)
          /\ EndPoint(fedge.twice) = EndPoint(fedge.e)
          /\ PointSet(fedge.twice) = PointSet(fedge.e)
          /\ SameRange(fedge.twice, fedge.e)

\* C10 amended: a flip swaps start and end point and keeps the point set; the
\* edge flipped twice has the start point, end point and point set of the
\* edge and a parametric domain of the same length, but every flip moves the
\* domain to start at 0: FirstParameter = 0 and LastParameter = the edge's
\* LastParameter - FirstParameter, which is the edge's own domain exactly
\* when its FirstParameter is 0.
C10_FlipRoundTripRange ==
    /\ fedge.pc \in {"once", "twice"} =>
          /\ StartPoint(fedge.once) = EndPoint(fedge.e)
          /\ EndPoint(fedge.once) = StartPoint(fedge.e)
          /\ PointSet(fedge.once) = PointSet(fedge.e)
          /\ fedge.once.first = 0
          /\ fedge.once.last = fedge.e.last - fedge.e.first
    /\ fedge.pc = "twice" =>
          /\ StartPoint(fedge.twice) = StartPoint(fedge.e)
          /\ EndPoint(fedge.twice) = EndPoint(fedge.e)
          /\ PointSet(fedge.twice) = PointSet(fedge.e)
          /\ fedge.twice.first = 0
          /\ fedge.twice.last = fedge.e.last - fedge.e.first
          /\ SameRange(fedge.twice, fedge.e) <=> fedge.e.first = 0

C10_Witness ==
    /\ fedge.pc = "twice" /\ fedge.e.t = "C" /\ fedge.e.first # 0
    /\ fedge.twice.first = 0 /\ fedge.twice.s = fedge.e.s

====
